---- MODULE Spec2Model ----
(***************************************************************************)
(* StorySplicer: the world state (characters, items, areas), the session   *)
(* and ownership layer, the MCP tool handlers and the agent controller,    *)
(* as state machines over the rows of the database and the in-memory       *)
(* session map.                                                            *)
(*                                                                         *)
(* Ids are SERIAL, so they start at 1; 0 stands for SQL NULL / JS null in  *)
(* every id-valued column (current_area_id, held_by_character_id,          *)
(* owner_id).  held_location uses the string "null" for NULL, and the      *)
(* percentage columns use NullPct.                                         *)
(***************************************************************************)
EXTENDS Integers, Sequences, FiniteSets, TLC

\* ------------------------------------------------------------- bounds
NumChars == 2
NumAreas == 2
NumPlayers == 2
MaxItems == 2
MaxTokens == 2
MaxCalls == 2
MaxClock == 3
NumWorlds == 1
NumSockets == 2
MaxMessages == 2
MaxCycles == 2
MaxRequests == 2
MaxOps == 2
MaxLag == 36000
NumMigrations == 3
MaxTransactions == 4
MaxAppends == 3

CharIds == 1..NumChars
AreaIds == 1..NumAreas
ItemIds == 1..MaxItems
Players == 1..NumPlayers
CallIds == 1..MaxCalls
WorldIds == 1..NumWorlds
SocketIds == 1..NumSockets
CycleIds == 1..MaxCycles
RequestIds == 1..MaxRequests
OpIds == 1..MaxOps
MigrationNames == 1..NumMigrations
Directions == {"north", "secret", "North"}
Locations == {"right hand", "left hand", "right pocket"}
LocationArgs == Locations \cup {"undefined"}
Null == 0

\* The clock advances in steps of 12 hours; times are in milliseconds.
HourMs == 60 * 60 * 1000
ClockStep == 12 * HourMs

VARIABLES
  characters,   \* characters table: id -> row
  items,        \* items table: id -> row
  areas,        \* areas table: id -> row
  nextItemId,   \* items_id_seq
  sessions,     \* auth.js `sessions` Map, as a set of entries carrying their token
  nextToken,    \* tokens handed out so far + 1 (tokens are unique)
  now,          \* Date.now()
  calls,        \* in-flight async calls of claimCharacter / releaseCharacter
  released,     \* history: characters whose release completed with no claim started since
  sockets,      \* WebSocket connections of the MCP server: id -> [open, listeners]
  request,      \* the last message a WebSocket connection delivered, and how many so far
  sched,        \* the agent controller: its flags, pending timers and runCycle calls
  client,       \* the browser's MCPClient: its connection, pending requests and promises
  ops,          \* tool handlers in progress, between two of their awaits
  db            \* migrate.js: the migrations table, the schema, the files, the run

worldVars == <<characters, items, areas, nextItemId>>
sessVars == <<sessions, nextToken>>
callVars == <<calls, released>>
rpcVars == <<sockets, request, client, ops, db>>
auxVars == <<sockets, request, sched, client, ops, db>>
vars == <<characters, items, areas, nextItemId, sessions, nextToken, now, calls, released,
          sockets, request, sched, client, ops, db>>

\* ------------------------------------------------------------- rows
NoChar ==
  [exists |-> FALSE, world |-> Null, area |-> Null, owner |-> Null, class |-> "minor",
   memory |-> <<>>, nutrition |-> 100, hydration |-> 100,
   tiredness |-> 0, alertness |-> 100]

\* Character.create with its defaults (owner_id = null, class 'minor',
\* nutrition/hydration 100, tiredness 0, alertness 100, memory []).
NewChar(world, area, class) ==
  [NoChar EXCEPT !.exists = TRUE, !.world = world, !.area = area, !.class = class]

NoItem == [exists |-> FALSE, world |-> Null, area |-> Null, holder |-> Null, loc |-> "null"]

NoExits == [d \in Directions |-> Null]

NoArea ==
  [exists |-> FALSE, world |-> Null, triggers |-> <<>>, exits |-> NoExits,
   description |-> <<>>, temperature |-> 20]

\* Area.create with its defaults (temperature 20.0, exits {}, triggers [])
NewArea(world, triggers) ==
  [NoArea EXCEPT !.exists = TRUE, !.world = world, !.triggers = triggers,
                 !.description = <<"base">>]

IdleCall ==
  [op |-> "none", pc |-> "idle", player |-> Null, char |-> Null,
   result |-> "none", token |-> Null]

\* Character.findById: the row, or null (here: a row with exists = FALSE).
FindCharacter(id) == characters[id]

\* Character.update(id, {owner_id: owner}): UPDATE ... WHERE id = $n touches
\* the row only if it exists.
SetOwner(chars, id, owner) ==
  IF chars[id].exists THEN [chars EXCEPT ![id].owner = owner] ELSE chars

\* a WebSocket that is not connected
NoSocket == [open |-> FALSE, listeners |-> {}]

\* no message delivered yet.  n numbers the messages and serves as the id
\* of the n-th; responses are the frames sent back for it.
NoRequest ==
  [n |-> 0, socket |-> Null, method |-> "", name |-> "", character_id |-> Null,
   token |-> Null, responses |-> <<>>]

\* MCPClient after its constructor: no socket yet, requestId 0 and an empty
\* pendingRequests map.  timers are the ids whose 30 s timeout is still to
\* fire, and promises the promises request() has returned, in order: the id
\* the request took (Null if it took none), whether ws.send sent it, how many
\* times its resolve or reject has been called, and the outcome it settled
\* with.
\* ignored are the ids of the messages that found no pending request.
NewClient ==
  [connected |-> FALSE, requestId |-> 0, pendingRequests |-> {}, timers |-> {},
   promises |-> <<>>, ignored |-> {}]

\* a handler that is not running.  A running one keeps its arguments and what
\* it has read so far: the character row of its own findById, the memory
\* array Character.addMemory read, and the triggers executeTriggers read with
\* the positions of the matched ones it has still to run.
NoOp ==
  [tool |-> "", pc |-> "idle", character_id |-> Null, item_id |-> Null,
   location |-> "undefined", text |-> <<>>, maxRecent |-> 0, area |-> Null,
   memory |-> <<>>, triggers |-> <<>>, matched |-> <<>>]

\* no handler running.  appended lists the entries whose UPDATE addMemory has
\* issued, with their character, in that order; picked are the item_pickup
\* calls that have returned their result, as opposed to throwing; reacted
\* lists the triggers whose reactions a character_speak has run.
NoOps ==
  [slot |-> [k \in OpIds |-> NoOp], appended |-> <<>>, picked |-> {}, reacted |-> <<>>]

\* migrate.js before any run: the migrations table (id SERIAL, name UNIQUE,
\* executed_at DEFAULT NOW()) is empty, no migration's up is in the schema
\* (applied counts them), the directory has no file, no run is in progress.
\* File names are numbers, in the order of Array.prototype.sort; time is the
\* number of transactions begun, which NOW() reads.
NoMigrations ==
  [migrations |-> {}, id_seq |-> 1, time |-> 0,
   applied |-> [m \in MigrationNames |-> 0], files |-> {},
   pc |-> "idle", pending |-> <<>>]

\* a runCycle call that is not in progress.  queue is the rest of the
\* `characters` array, its head being processed; found is the array as the
\* query returned it and processed the characters processCharacter is done
\* with, in order.
IdleCycle ==
  [pc |-> "idle", queue |-> <<>>, secondsPassed |-> 0, found |-> <<>>, processed |-> <<>>]

\* AgentController after its constructor and initialize(): not running, the
\* LLM manager initialized, no timer pending, no cycle in progress.  There is
\* no clock for the cycles: lag is the time, in seconds, from lastCycleTime to
\* the Date.now() of the latest cycle (or of the constructor, which sets
\* lastCycleTime).
IdleSched ==
  [running |-> FALSE, initialized |-> TRUE, timers |-> 0, lag |-> 0,
   cycles |-> [k \in CycleIds |-> IdleCycle]]

InitAux ==
  /\ sockets = [k \in SocketIds |-> NoSocket]
  /\ request = NoRequest
  /\ sched = IdleSched
  /\ client = NewClient
  /\ ops = NoOps
  /\ db = NoMigrations

\* ------------------------------------------------------------- sessions
MAX_AGE == 24 * HourMs

\* createSession: sessions.set(token, {playerId, characterId, createdAt, lastActivity})
CreateSession(sess, token, playerId, characterId, t) ==
  sess \cup {[token |-> token, playerId |-> playerId, characterId |-> characterId,
              createdAt |-> t, lastActivity |-> t]}

\* releaseCharacter's loop: delete every entry whose characterId is the character.
EndSessionsOf(sess, characterId) ==
  {s \in sess : s.characterId # characterId}

\* mutant of Expired: the age is counted from the last activity
ExpiredSinceActivity(s, t) == t - s.lastActivity > MAX_AGE

\* the expiry test of validateSession and cleanupSessions: age > MAX_AGE
Expired(s, t) == t - s.createdAt > MAX_AGE

\* canControlCharacter, on a given characters table
CanControlIn(chars, playerId, characterId) ==
  LET character == chars[characterId]
  IN  IF ~character.exists THEN FALSE ELSE character.owner = playerId

CanControl(playerId, characterId) == CanControlIn(characters, playerId, characterId)

\* mutant of ClaimVerdict: the ownership check dropped
ClaimVerdictNoOwnerCheck(character, playerId) ==
  IF ~character.exists THEN "NotFound" ELSE "pending"

\* claimCharacter's two checks on the row it read
ClaimVerdict(character, playerId) ==
  IF ~character.exists THEN "NotFound"
  ELSE IF character.owner # Null /\ character.owner # playerId THEN "AlreadyOwned"
  ELSE "pending"

ClaimsInFlight == Cardinality({k \in CallIds : calls[k].op = "claim" /\ calls[k].pc # "done"})

\* claimCharacter, up to its first await: Character.findById and the two checks.
ClaimFind(k, p, c) ==
  /\ calls[k].pc = "idle"
  /\ nextToken + ClaimsInFlight <= MaxTokens
  /\ LET res == ClaimVerdict(FindCharacter(c), p)
     IN calls' = [calls EXCEPT ![k] =
                    [IdleCall EXCEPT !.op = "claim", !.player = p, !.char = c,
                                     !.pc = IF res = "pending" THEN "update" ELSE "done",
                                     !.result = res]]
  /\ released' = released \ {c}
  /\ UNCHANGED <<worldVars, sessVars, now, auxVars>>

\* claimCharacter: await Character.update(characterId, {owner_id: playerId})
ClaimUpdate(k) ==
  /\ calls[k].op = "claim" /\ calls[k].pc = "update"
  /\ characters' = SetOwner(characters, calls[k].char, calls[k].player)
  /\ calls' = [calls EXCEPT ![k].pc = "session"]
  /\ UNCHANGED <<items, areas, nextItemId, sessVars, now, released, auxVars>>

\* claimCharacter: return createSession(playerId, characterId)
ClaimSession(k) ==
  /\ calls[k].op = "claim" /\ calls[k].pc = "session"
  /\ sessions' = CreateSession(sessions, nextToken, calls[k].player, calls[k].char, now)
  /\ nextToken' = nextToken + 1
  /\ calls' = [calls EXCEPT ![k].pc = "done", ![k].result = "ok", ![k].token = nextToken]
  /\ UNCHANGED <<worldVars, now, released, auxVars>>

\* releaseCharacter: await Character.update(characterId, {owner_id: null})
ReleaseUpdate(k, c) ==
  /\ calls[k].pc = "idle"
  /\ characters' = SetOwner(characters, c, Null)
  /\ calls' = [calls EXCEPT ![k] = [IdleCall EXCEPT !.op = "release", !.char = c, !.pc = "end"]]
  /\ UNCHANGED <<items, areas, nextItemId, sessVars, now, released, auxVars>>

\* releaseCharacter: the loop that ends all sessions for the character
ReleaseEndSessions(k) ==
  /\ calls[k].op = "release" /\ calls[k].pc = "end"
  /\ sessions' = EndSessionsOf(sessions, calls[k].char)
  /\ calls' = [calls EXCEPT ![k].pc = "done", ![k].result = "ok"]
  /\ released' = released \cup {calls[k].char}
  /\ UNCHANGED <<worldVars, nextToken, now, auxVars>>

\* the caller takes the promise's result
CallReturn(k) ==
  /\ calls[k].pc = "done"
  /\ calls' = [calls EXCEPT ![k] = IdleCall]
  /\ UNCHANGED <<worldVars, sessVars, now, released, auxVars>>

\* validateSession(token): synchronous
ValidateSession(token) ==
  /\ \E s \in sessions :
       /\ s.token = token
       /\ sessions' = IF Expired(s, now)
                      THEN sessions \ {s}
                      ELSE (sessions \ {s}) \cup {[s EXCEPT !.lastActivity = now]}
  /\ UNCHANGED <<worldVars, nextToken, now, callVars, auxVars>>

\* cleanupSessions, run by setInterval every hour
CleanupSessions ==
  /\ sessions' = {s \in sessions : ~Expired(s, now)}
  /\ UNCHANGED <<worldVars, nextToken, now, callVars, auxVars>>

AdvanceClock ==
  /\ now < MaxClock * ClockStep
  /\ now' = now + ClockStep
  /\ UNCHANGED <<worldVars, sessVars, callVars, auxVars>>

InitSession ==
  /\ characters = [c \in CharIds |-> IF c = 1 THEN NewChar(1, Null, "minor") ELSE NoChar]
  /\ items = [i \in ItemIds |-> NoItem]
  /\ areas = [a \in AreaIds |-> NoArea]
  /\ nextItemId = 1
  /\ sessions = {}
  /\ nextToken = 1
  /\ now = 0
  /\ calls = [k \in CallIds |-> IdleCall]
  /\ released = {}
  /\ InitAux

NextSession ==
  \/ \E k \in CallIds, p \in Players, c \in CharIds : ClaimFind(k, p, c)
  \/ \E k \in CallIds : ClaimUpdate(k)
  \/ \E k \in CallIds : ClaimSession(k)
  \/ \E k \in CallIds, c \in CharIds : ReleaseUpdate(k, c)
  \/ \E k \in CallIds : ReleaseEndSessions(k)
  \/ \E k \in CallIds : CallReturn(k)
  \/ \E t \in 1..MaxTokens : ValidateSession(t)
  \/ CleanupSessions
  \/ AdvanceClock

SpecSession == InitSession /\ [][NextSession]_vars

\* The same operations called one after another: a call starts only when no
\* other call is between its first await and its return value.
NoCallRunning == \A j \in CallIds : calls[j].pc \in {"idle", "done"}

NextSessionSeq ==
  \/ \E k \in CallIds, p \in Players, c \in CharIds : NoCallRunning /\ ClaimFind(k, p, c)
  \/ \E k \in CallIds : ClaimUpdate(k)
  \/ \E k \in CallIds : ClaimSession(k)
  \/ \E k \in CallIds, c \in CharIds : NoCallRunning /\ ReleaseUpdate(k, c)
  \/ \E k \in CallIds : ReleaseEndSessions(k)
  \/ \E k \in CallIds : CallReturn(k)
  \/ \E t \in 1..MaxTokens : NoCallRunning /\ ValidateSession(t)
  \/ NoCallRunning /\ CleanupSessions
  \/ AdvanceClock

SpecSessionSeq == InitSession /\ [][NextSessionSeq]_vars

\* claim and release alone, called one after another (the scenario
\* claim; claim; release; claim of the ownership tests).
NextClaimSeq ==
  \/ \E k \in CallIds, p \in Players, c \in CharIds : NoCallRunning /\ ClaimFind(k, p, c)
  \/ \E k \in CallIds : ClaimUpdate(k)
  \/ \E k \in CallIds : ClaimSession(k)
  \/ \E k \in CallIds, c \in CharIds : NoCallRunning /\ ReleaseUpdate(k, c)
  \/ \E k \in CallIds : ReleaseEndSessions(k)
  \/ \E k \in CallIds : CallReturn(k)

SpecClaimSeq == InitSession /\ [][NextClaimSeq]_vars

\* one caller claiming character 1 again and again, validation, the hourly
\* sweep and the clock
NextExpire ==
  \/ \E p \in Players : NoCallRunning /\ ClaimFind(1, p, 1)
  \/ ClaimUpdate(1)
  \/ ClaimSession(1)
  \/ CallReturn(1)
  \/ \E t \in 1..MaxTokens : ValidateSession(t)
  \/ CleanupSessions
  \/ AdvanceClock

SpecExpire == InitSession /\ [][NextExpire]_vars

\* ------------------------------------------------------------- world
\* The database rows a handler works on, as one value, so that the steps of
\* a handler compose.  overflow marks an INSERT beyond the model's item bound;
\* error marks a statement that threw: the handler stops there and, each
\* statement being its own autocommitted query, the earlier writes stay;
\* fired lists the positions of the triggers whose reactions the handler ran.
World ==
  [characters |-> characters, items |-> items, areas |-> areas,
   nextItemId |-> nextItemId, overflow |-> FALSE, error |-> FALSE, fired |-> <<>>]

Commit(w) ==
  /\ ~w.overflow
  /\ characters' = w.characters
  /\ items' = w.items
  /\ areas' = w.areas
  /\ nextItemId' = w.nextItemId

\* Item.create: INSERT INTO items ... RETURNING *
ItemCreate(w, world_id, area_id, holder, loc) ==
  IF w.nextItemId > MaxItems THEN [w EXCEPT !.overflow = TRUE]
  ELSE [w EXCEPT !.items[w.nextItemId] =
                    [exists |-> TRUE, world |-> world_id, area |-> area_id,
                     holder |-> holder, loc |-> loc],
                 !.nextItemId = w.nextItemId + 1]

\* Item.delete
ItemDelete(w, id) ==
  IF id \in ItemIds THEN [w EXCEPT !.items[id] = NoItem] ELSE w

\* mutant of MoveToArea: held_location is not cleared
MoveToAreaKeepLocation(w, id, area_id) ==
  [w EXCEPT !.items[id].area = area_id, !.items[id].holder = Null]

\* Item.moveToArea
MoveToArea(w, id, area_id) ==
  [w EXCEPT !.items[id].area = area_id, !.items[id].holder = Null, !.items[id].loc = "null"]

\* Item.giveToCharacter; Item.update leaves a field alone when its value is
\* undefined (a call without `location`)
GiveToCharacter(w, id, character_id, location) ==
  [w EXCEPT !.items[id].area = Null, !.items[id].holder = character_id,
            !.items[id].loc = IF location = "undefined" THEN @ ELSE location]

\* the maxRecent every caller passes: character_class === 'story' ? 5 : 3
MaxRecent(character) == IF character.class = "story" THEN 5 ELSE 3

\* Character.addMemory: if (memory.length > maxRecent) memory.shift()
ShiftOldest(memory, maxRecent) ==
  IF Len(memory) > maxRecent THEN Tail(memory) ELSE memory

\* Character.addMemory
AddMemory(w, id, entry, maxRecent) ==
  IF ~w.characters[id].exists THEN w
  ELSE [w EXCEPT !.characters[id].memory =
                    ShiftOldest(Append(w.characters[id].memory, entry), maxRecent)]

\* ------------------------------------------------------------- triggers
\* A condition is the string eventType (isString) or an object whose absent
\* fields are "" / <<>> / Null.  A text is the sequence of its lower-cased
\* words; a keyword is one word.
StringCondition(type) ==
  [isString |-> TRUE, type |-> type, keywords |-> <<>>, character_id |-> Null,
   item_id |-> Null]

ObjectCondition(type, keywords, character_id, item_id) ==
  [isString |-> FALSE, type |-> type, keywords |-> keywords,
   character_id |-> character_id, item_id |-> item_id]

Reaction(type) ==
  [type |-> type, has_item |-> FALSE, item_id |-> Null, direction |-> "",
   target_area_id |-> Null, new_description |-> "", append_description |-> "",
   has_temperature |-> FALSE, temperature |-> 0,
   has_temperature_delta |-> FALSE, temperature_delta |-> 0]

\* createTrigger
CreateTrigger(condition, reactions, oneTime) ==
  [condition |-> condition, reactions |-> reactions, one_time |-> oneTime]

EventData(character_id, item_id, text) ==
  [character_id |-> character_id, item_id |-> item_id, text |-> text]

InText(text, keyword) == \E n \in 1..Len(text) : text[n] = keyword

\* shouldTriggerFire
ShouldTriggerFire(trigger, eventType, eventData) ==
  LET condition == trigger.condition
  IN  IF condition.isString THEN condition.type = eventType
      ELSE IF condition.type # "" /\ condition.type # eventType THEN FALSE
      ELSE IF eventType = "character_speech" /\ condition.keywords # <<>>
           THEN \E n \in 1..Len(condition.keywords) :
                   InText(eventData.text, condition.keywords[n])
      ELSE IF condition.character_id # Null
              /\ condition.character_id # eventData.character_id THEN FALSE
      ELSE IF condition.item_id # Null /\ condition.item_id # eventData.item_id THEN FALSE
      ELSE TRUE

NoUpdates ==
  [has_exits |-> FALSE, exits |-> NoExits, has_description |-> FALSE,
   description |-> <<>>, has_temperature |-> FALSE, temperature |-> 0]

\* one pass of executeReactions' switch: the world and the accumulated
\* `updates` after reaction r; `area` is the row read before the loop.
ReactionStep(st, area, areaId, r) ==
  LET w == st.w
      u == st.updates
  IN  CASE r.type = "add_item" ->
             IF r.has_item
             THEN [st EXCEPT !.w = ItemCreate(w, area.world, areaId, Null, "null")]
             ELSE st
        [] r.type = "remove_item" ->
             IF r.item_id # Null THEN [st EXCEPT !.w = ItemDelete(w, r.item_id)] ELSE st
        [] r.type = "add_exit" ->
             IF r.direction # "" /\ r.target_area_id # Null
             THEN [st EXCEPT !.updates.has_exits = TRUE,
                             !.updates.exits = [area.exits EXCEPT ![r.direction] = r.target_area_id]]
             ELSE st
        [] r.type = "remove_exit" ->
             IF r.direction # ""
             THEN [st EXCEPT !.updates.has_exits = TRUE,
                             !.updates.exits = [area.exits EXCEPT ![r.direction] = Null]]
             ELSE st
        [] r.type = "modify_description" ->
             IF r.new_description # ""
             THEN [st EXCEPT !.updates.has_description = TRUE,
                             !.updates.description = <<r.new_description>>]
             ELSE IF r.append_description # ""
             THEN [st EXCEPT !.updates.has_description = TRUE,
                             !.updates.description = Append(area.description, r.append_description)]
             ELSE st
        [] r.type = "modify_temperature" ->
             IF r.has_temperature
             THEN [st EXCEPT !.updates.has_temperature = TRUE,
                             !.updates.temperature = r.temperature]
             ELSE IF r.has_temperature_delta
             THEN [st EXCEPT !.updates.has_temperature = TRUE,
                             !.updates.temperature = area.temperature + r.temperature_delta]
             ELSE st
        [] OTHER -> st

RECURSIVE ReactionLoop(_, _, _, _, _)
ReactionLoop(st, area, areaId, reactions, n) ==
  IF n > Len(reactions) THEN st
  ELSE ReactionLoop(ReactionStep(st, area, areaId, reactions[n]), area, areaId, reactions, n + 1)

\* areas.temperature is NUMERIC(5,2): an absolute value of 1000 or more is
\* refused with "numeric field overflow"
NUMERIC_5_2 == 1000

\* Area.update(areaId, updates); a refused UPDATE throws (error) and writes
\* nothing
AreaUpdate(w, areaId, u) ==
  IF ~w.areas[areaId].exists THEN w
  ELSE IF u.has_temperature
          /\ (u.temperature >= NUMERIC_5_2 \/ u.temperature <= 0 - NUMERIC_5_2)
  THEN [w EXCEPT !.error = TRUE]
  ELSE [w EXCEPT
          !.areas[areaId].exits = IF u.has_exits THEN u.exits ELSE @,
          !.areas[areaId].description = IF u.has_description THEN u.description ELSE @,
          !.areas[areaId].temperature = IF u.has_temperature THEN u.temperature ELSE @]

\* executeReactions
ExecuteReactions(w, areaId, reactions) ==
  IF reactions = <<>> THEN w
  ELSE LET st == ReactionLoop([w |-> w, updates |-> NoUpdates], w.areas[areaId],
                              areaId, reactions, 1)
       IN  AreaUpdate(st.w, areaId, st.updates)

\* triggers.filter(t => t !== trigger): the list without the element at n
WithoutIndex(triggers, n) ==
  [m \in 1..(Len(triggers) - 1) |-> IF m < n THEN triggers[m] ELSE triggers[m + 1]]

\* mutant of TriggerLoop: the change a reaction makes is taken as an event
\* that fires the trigger once more
RECURSIVE TriggerLoopRefire(_, _, _, _, _)
TriggerLoopRefire(w, areaId, triggers, matched, n) ==
  IF n > Len(matched) THEN w
  ELSE LET trigger == triggers[matched[n]]
           w0 == ExecuteReactions([w EXCEPT !.fired = Append(@, matched[n])],
                                  areaId, trigger.reactions)
           w1 == IF w0.error THEN w0
                 ELSE ExecuteReactions([w0 EXCEPT !.fired = Append(@, matched[n])],
                                       areaId, trigger.reactions)
       IN  IF w1.error THEN w1
           ELSE TriggerLoopRefire(w1, areaId, triggers, matched, n + 1)

\* executeTriggers' second loop, over the positions `matched` of the list
\* `triggers` read at the start
RECURSIVE TriggerLoop(_, _, _, _, _)
TriggerLoop(w, areaId, triggers, matched, n) ==
  IF n > Len(matched) THEN w
  ELSE LET trigger == triggers[matched[n]]
           w1 == ExecuteReactions([w EXCEPT !.fired = Append(@, matched[n])],
                                  areaId, trigger.reactions)
           w2 == IF trigger.one_time /\ w1.areas[areaId].exists
                 THEN [w1 EXCEPT !.areas[areaId].triggers = WithoutIndex(triggers, matched[n])]
                 ELSE w1
       IN  IF w1.error THEN w1
           ELSE TriggerLoop(w2, areaId, triggers, matched, n + 1)

\* the positions, in order, of the triggers that match the event
RECURSIVE MatchedFrom(_, _, _, _)
MatchedFrom(triggers, eventType, eventData, n) ==
  IF n > Len(triggers) THEN <<>>
  ELSE IF ShouldTriggerFire(triggers[n], eventType, eventData)
       THEN <<n>> \o MatchedFrom(triggers, eventType, eventData, n + 1)
       ELSE MatchedFrom(triggers, eventType, eventData, n + 1)

\* executeTriggers
ExecuteTriggers(w, areaId, eventType, eventData) ==
  IF areaId \notin AreaIds THEN w
  ELSE LET area == w.areas[areaId]
       IN  IF ~area.exists \/ area.triggers = <<>> THEN w
           ELSE TriggerLoop(w, areaId, area.triggers,
                            MatchedFrom(area.triggers, eventType, eventData, 1), 1)

\* ------------------------------------------------------------- tools
\* item_pickup: the error it throws, or "ok"
ItemPickupError(w, character_id, item_id) ==
  IF ~w.characters[character_id].exists THEN "Character not found"
  ELSE IF ~w.items[item_id].exists THEN "Item not found"
  ELSE IF w.items[item_id].area # w.characters[character_id].area
       THEN "Item is not in character's current area"
  ELSE "ok"

\* item_pickup after its checks: giveToCharacter, triggers, memory
ItemPickupDo(w, character_id, item_id, location) ==
  LET character == w.characters[character_id]
      w1 == GiveToCharacter(w, item_id, character_id, location)
      w2 == IF character.area # Null
            THEN ExecuteTriggers(w1, character.area, "item_picked_up",
                                 EventData(character_id, item_id, <<>>))
            ELSE w1
  IN  IF w2.error THEN w2
      ELSE AddMemory(w2, character_id, "picked up", MaxRecent(character))

\* handleItemTool('item_pickup', ...)
ItemPickup(character_id, item_id, location) ==
  /\ IF ItemPickupError(World, character_id, item_id) = "ok"
     THEN Commit(ItemPickupDo(World, character_id, item_id, location))
     ELSE UNCHANGED worldVars
  /\ UNCHANGED <<sessVars, now, callVars, auxVars>>

\* mutant of ItemDropError: the held_by_character_id check dropped
ItemDropErrorNoHolderCheck(w, character_id, item_id) ==
  IF ~w.characters[character_id].exists THEN "Character not found"
  ELSE IF ~w.items[item_id].exists THEN "Item not found"
  ELSE IF w.characters[character_id].area = Null THEN "Character is not in any area"
  ELSE "ok"

\* item_drop: the error it throws, or "ok"
ItemDropError(w, character_id, item_id) ==
  IF ~w.characters[character_id].exists THEN "Character not found"
  ELSE IF ~w.items[item_id].exists THEN "Item not found"
  ELSE IF w.items[item_id].holder # character_id THEN "Character is not holding this item"
  ELSE IF w.characters[character_id].area = Null THEN "Character is not in any area"
  ELSE "ok"

\* item_drop after its checks: moveToArea, triggers, memory
ItemDropDo(w, character_id, item_id) ==
  LET character == w.characters[character_id]
      w1 == MoveToArea(w, item_id, character.area)
      w2 == ExecuteTriggers(w1, character.area, "item_dropped",
                            EventData(character_id, item_id, <<>>))
  IN  IF w2.error THEN w2
      ELSE AddMemory(w2, character_id, "dropped", MaxRecent(character))

\* handleItemTool('item_drop', ...)
ItemDrop(character_id, item_id) ==
  /\ IF ItemDropError(World, character_id, item_id) = "ok"
     THEN Commit(ItemDropDo(World, character_id, item_id))
     ELSE UNCHANGED worldVars
  /\ UNCHANGED <<sessVars, now, callVars, auxVars>>

\* the world after a call of item_pickup / item_drop (unchanged on error)
ItemPickupCall(w, character_id, item_id, location) ==
  IF ItemPickupError(w, character_id, item_id) = "ok"
  THEN ItemPickupDo(w, character_id, item_id, location) ELSE w

ItemDropCall(w, character_id, item_id) ==
  IF ItemDropError(w, character_id, item_id) = "ok"
  THEN ItemDropDo(w, character_id, item_id) ELSE w

\* handleItemTool('item_create', ...): current_area_id: args.area_id || null;
\* the INSERT fails on the foreign key when the area does not exist.
ItemCreateTool(world_id, area_id) ==
  /\ IF area_id # Null /\ ~areas[area_id].exists
     THEN UNCHANGED worldVars
     ELSE Commit(ItemCreate(World, world_id, area_id, Null, "null"))
  /\ UNCHANGED <<sessVars, now, callVars, auxVars>>

\* character_move: the error it throws, or "ok" (the UPDATE fails on the
\* foreign key characters.current_area_id when the area does not exist)
CharacterMoveError(w, character_id, area_id) ==
  IF ~w.characters[character_id].exists THEN "Character not found"
  ELSE IF ~w.areas[area_id].exists THEN "foreign key violation"
  ELSE "ok"

\* mutant of CharacterMoveDo: character_enters is fired on the area left
CharacterMoveDoOnSource(w, character_id, area_id) ==
  ExecuteTriggers([w EXCEPT !.characters[character_id].area = area_id],
                  w.characters[character_id].area,
                  "character_enters", EventData(character_id, Null, <<>>))

\* character_move after its checks: Character.update, triggers
CharacterMoveDo(w, character_id, area_id) ==
  ExecuteTriggers([w EXCEPT !.characters[character_id].area = area_id], area_id,
                  "character_enters", EventData(character_id, Null, <<>>))

\* handleCharacterTool('character_move', ...)
CharacterMove(character_id, area_id) ==
  /\ IF CharacterMoveError(World, character_id, area_id) = "ok"
     THEN Commit(CharacterMoveDo(World, character_id, area_id))
     ELSE UNCHANGED worldVars
  /\ UNCHANGED <<sessVars, now, callVars, auxVars>>

\* Character.delete; items.held_by_character_id is ON DELETE SET NULL
CharacterDelete(id) ==
  /\ characters[id].exists
  /\ characters' = [characters EXCEPT ![id] = NoChar]
  /\ items' = [i \in ItemIds |->
                 IF items[i].exists /\ items[i].holder = id
                 THEN [items[i] EXCEPT !.holder = Null] ELSE items[i]]
  /\ UNCHANGED <<areas, nextItemId, sessVars, now, callVars, auxVars>>

\* Area.delete; items.current_area_id and characters.current_area_id are
\* ON DELETE SET NULL
AreaDelete(id) ==
  /\ areas[id].exists
  /\ areas' = [areas EXCEPT ![id] = NoArea]
  /\ items' = [i \in ItemIds |->
                 IF items[i].exists /\ items[i].area = id
                 THEN [items[i] EXCEPT !.area = Null] ELSE items[i]]
  /\ characters' = [c \in CharIds |->
                      IF characters[c].exists /\ characters[c].area = id
                      THEN [characters[c] EXCEPT !.area = Null] ELSE characters[c]]
  /\ UNCHANGED <<nextItemId, sessVars, now, callVars, auxVars>>

\* An area whose triggers react to items: every drop adds an item, the first
\* pickup removes item 1.
ItemTriggers ==
  << CreateTrigger(StringCondition("item_dropped"),
                   <<[Reaction("add_item") EXCEPT !.has_item = TRUE]>>, FALSE),
     CreateTrigger(StringCondition("item_picked_up"),
                   <<[Reaction("remove_item") EXCEPT !.item_id = 1]>>, TRUE) >>

InitItems ==
  /\ characters = [c \in CharIds |->
                     IF c = 1 THEN NewChar(1, 1, "minor")
                     ELSE IF c = 2 THEN NewChar(1, Null, "minor") ELSE NoChar]
  /\ items = [i \in ItemIds |-> NoItem]
  /\ areas = [a \in AreaIds |->
                IF a = 1 THEN NewArea(1, ItemTriggers)
                ELSE IF a = 2 THEN NewArea(1, <<>>) ELSE NoArea]
  /\ nextItemId = 1
  /\ sessions = {}
  /\ nextToken = 1
  /\ now = 0
  /\ calls = [k \in CallIds |-> IdleCall]
  /\ released = {}
  /\ InitAux

NextItems ==
  \/ \E w \in WorldIds, a \in AreaIds \cup {Null} : ItemCreateTool(w, a)
  \/ \E c \in CharIds, i \in ItemIds, l \in LocationArgs : ItemPickup(c, i, l)
  \/ \E c \in CharIds, i \in ItemIds : ItemDrop(c, i)
  \/ \E c \in CharIds, a \in AreaIds : CharacterMove(c, a)
  \/ \E c \in CharIds : CharacterDelete(c)
  \/ \E a \in AreaIds : AreaDelete(a)

SpecItems == InitItems /\ [][NextItems]_vars

\* pickup and drop alone.  Area 1 sets its temperature whenever an item is
\* dropped and, once, deletes item 2 when item 2 is picked up.
HandsTriggers ==
  << CreateTrigger(StringCondition("item_dropped"),
                   <<[Reaction("modify_temperature") EXCEPT !.has_temperature = TRUE,
                                                            !.temperature = 25]>>, FALSE),
     CreateTrigger(ObjectCondition("item_picked_up", <<>>, Null, 2),
                   <<[Reaction("remove_item") EXCEPT !.item_id = 2]>>, TRUE) >>

\* character 1 stands in area 1 next to item 1; character 2 has no area;
\* item 2 lies in area 1 or is in character 2's hand.
InitHands ==
  /\ characters = [c \in CharIds |->
                     IF c = 1 THEN NewChar(1, 1, "minor")
                     ELSE IF c = 2 THEN NewChar(1, Null, "minor") ELSE NoChar]
  /\ \E held \in BOOLEAN :
       items = [i \in ItemIds |->
                  IF i = 1 \/ (i = 2 /\ ~held)
                  THEN [exists |-> TRUE, world |-> 1, area |-> 1,
                        holder |-> Null, loc |-> "null"]
                  ELSE IF i = 2
                  THEN [exists |-> TRUE, world |-> 1, area |-> Null,
                        holder |-> 2, loc |-> "left hand"]
                  ELSE NoItem]
  /\ areas = [a \in AreaIds |->
                IF a = 1 THEN NewArea(1, HandsTriggers)
                ELSE IF a = 2 THEN NewArea(1, <<>>) ELSE NoArea]
  /\ nextItemId = 3
  /\ sessions = {}
  /\ nextToken = 1
  /\ now = 0
  /\ calls = [k \in CallIds |-> IdleCall]
  /\ released = {}
  /\ InitAux

NextHands ==
  \/ \E c \in CharIds, i \in ItemIds, l \in LocationArgs : ItemPickup(c, i, l)
  \/ \E c \in CharIds, i \in ItemIds : ItemDrop(c, i)

SpecHands == InitHands /\ [][NextHands]_vars

\* ------------------------------------------------------------- character state
\* nutrition, hydration, tiredness and alertness are NUMERIC columns without
\* NOT NULL: a column holds a number or SQL NULL (NullPct).  An argument of
\* character_update_state is a number, null (NullPct) or absent (Undefined).
\* NaN is what parseFloat(null) and arithmetic on it give.
NullPct == 0 - 1000
Undefined == 0 - 2000
NaN == 0 - 3000

PctFields == {"nutrition", "hydration", "tiredness", "alertness"}

\* CHECK (x >= 0 AND x <= 100): the row is rejected only when the expression
\* is false; for NULL it is unknown and the row passes.  NaN sorts above
\* every number, so NaN <= 100 is false.
CheckPercent(v) == v = NullPct \/ (v # NaN /\ 0 <= v /\ v <= 100)

NoUpdates4 ==
  [nutrition |-> Undefined, hydration |-> Undefined, tiredness |-> Undefined,
   alertness |-> Undefined]

\* Character.update(id, updates) on the percentage columns: the error the
\* UPDATE ends with, or "ok"
CharacterUpdateError(w, id, u) ==
  IF ~w.characters[id].exists THEN "Character not found"
  ELSE IF \E f \in PctFields : u[f] # Undefined /\ ~CheckPercent(u[f])
       THEN "check constraint violation"
  ELSE "ok"

\* Character.update(id, updates): fields that are undefined are left alone
CharacterUpdate(w, id, u) ==
  [w EXCEPT
     !.characters[id].nutrition = IF u.nutrition # Undefined THEN u.nutrition ELSE @,
     !.characters[id].hydration = IF u.hydration # Undefined THEN u.hydration ELSE @,
     !.characters[id].tiredness = IF u.tiredness # Undefined THEN u.tiredness ELSE @,
     !.characters[id].alertness = IF u.alertness # Undefined THEN u.alertness ELSE @]

\* character_update_state: copies the arguments that are not undefined and
\* calls Character.update; no clamping, no forced-sleep rule
CharacterUpdateStateDo(w, character_id, args) ==
  IF CharacterUpdateError(w, character_id, args) = "ok"
  THEN CharacterUpdate(w, character_id, args)
  ELSE w

ParseFloat(v) == IF v = NullPct THEN NaN ELSE v

\* Math.max(0, x - loss) and Math.min(100, x + gain); NaN stays NaN
MaxZeroMinus(x, loss) ==
  IF x = NaN THEN NaN ELSE IF x - loss < 0 THEN 0 ELSE x - loss

MinHundredPlus(x, gain) ==
  IF x = NaN THEN NaN ELSE IF x + gain > 100 THEN 100 ELSE x + gain

\* updatePhysicalState: the `updates` object it builds (damage is not modelled)
PhysicalUpdates(character, secondsPassed) ==
  LET nutrition == MaxZeroMinus(ParseFloat(character.nutrition), secondsPassed \div 900)
      hydration == MaxZeroMinus(ParseFloat(character.hydration), secondsPassed \div 600)
      alertness == ParseFloat(character.alertness)
      tiredness == ParseFloat(character.tiredness)
  IN  IF alertness # NaN /\ alertness < 20
      THEN [nutrition |-> nutrition, hydration |-> hydration,
            tiredness |-> MaxZeroMinus(tiredness, (secondsPassed \div 60) * 5),
            alertness |-> MinHundredPlus(alertness, (secondsPassed \div 60) * 5)]
      ELSE LET up == MinHundredPlus(tiredness, secondsPassed \div 600)
           IN  [nutrition |-> nutrition, hydration |-> hydration, tiredness |-> up,
                alertness |-> IF up # NaN /\ up >= 100 THEN 0 ELSE Undefined]

\* updatePhysicalState throws when its Character.update is rejected
UpdatePhysicalStateError(w, characterId, secondsPassed) ==
  IF ~w.characters[characterId].exists THEN "ok"
  ELSE CharacterUpdateError(w, characterId,
                            PhysicalUpdates(w.characters[characterId], secondsPassed))

\* updatePhysicalState
UpdatePhysicalState(w, characterId, secondsPassed) ==
  IF ~w.characters[characterId].exists THEN w
  ELSE CharacterUpdateStateDo(w, characterId,
                              PhysicalUpdates(w.characters[characterId], secondsPassed))

\* the elapsed seconds a cycle can measure (multiples of 1800 s, so that every
\* rate above gives a whole percentage)
TickSeconds == {0, 18000}

\* the values a caller can pass for one percentage
PctInputs == {Undefined, NullPct, 0 - 1, 0, 19, 100, 101}

\* handleCharacterTool('character_update_state', ...)
CharacterUpdateState(character_id, args) ==
  /\ Commit(CharacterUpdateStateDo(World, character_id, args))
  /\ UNCHANGED <<sessVars, now, callVars, auxVars>>

\* updatePhysicalState(characterId, secondsPassed), as processCharacter calls it
PhysicalTick(characterId, secondsPassed) ==
  /\ Commit(UpdatePhysicalState(World, characterId, secondsPassed))
  /\ UNCHANGED <<sessVars, now, callVars, auxVars>>

InitPhys ==
  /\ characters = [c \in CharIds |-> IF c = 1 THEN NewChar(1, Null, "minor") ELSE NoChar]
  /\ items = [i \in ItemIds |-> NoItem]
  /\ areas = [a \in AreaIds |-> NoArea]
  /\ nextItemId = 1
  /\ sessions = {}
  /\ nextToken = 1
  /\ now = 0
  /\ calls = [k \in CallIds |-> IdleCall]
  /\ released = {}
  /\ InitAux

NextPhys ==
  \/ \E c \in CharIds, n, h, t, a \in PctInputs :
       CharacterUpdateState(c, [nutrition |-> n, hydration |-> h, tiredness |-> t,
                                alertness |-> a])
  \/ \E c \in CharIds, dt \in TickSeconds : PhysicalTick(c, dt)

SpecPhys == InitPhys /\ [][NextPhys]_vars

\* ------------------------------------------------------------- character tools
\* a text, which the model keeps as the sequence of its words, as a string
RECURSIVE JoinWords(_)
JoinWords(words) ==
  IF words = <<>> THEN ""
  ELSE IF Len(words) = 1 THEN Head(words)
  ELSE Head(words) \o " " \o JoinWords(Tail(words))

\* character_speak after its check: addMemory of `${action_type}: ${text}`,
\* then the speech triggers of the character's area
CharacterSpeakDo(w, character_id, text, action_type) ==
  LET character == w.characters[character_id]
      w1 == AddMemory(w, character_id, action_type \o ": " \o JoinWords(text),
                      MaxRecent(character))
  IN  IF action_type = "speech" /\ character.area # Null
      THEN ExecuteTriggers(w1, character.area, "character_speech",
                           EventData(character_id, Null, text))
      ELSE w1

\* character_add_memory after its check
CharacterAddMemoryDo(w, character_id) ==
  AddMemory(w, character_id, "added", MaxRecent(w.characters[character_id]))

\* executeWaitAction
ExecuteWaitAction(w, character) ==
  AddMemory(w, character, "waited", MaxRecent(w.characters[character]))

\* executeSleepAction
ExecuteSleepAction(w, character) ==
  CharacterUpdateStateDo(w, character, [NoUpdates4 EXCEPT !.alertness = 0])

\* what the model lets the language model answer: an action the controller
\* can parse, or text parseAction returns null for
AgentActions == {"wait", "sleep", "unparsed"}

\* processCharacter from parseAction on: executeAction(character.id, action)
ExecuteAction(w, characterId, action) ==
  IF ~w.characters[characterId].exists THEN w
  ELSE CASE action = "wait" -> ExecuteWaitAction(w, characterId)
         [] action = "sleep" -> ExecuteSleepAction(w, characterId)
         [] OTHER -> w

\* handleCharacterTool('character_speak', ...)
CharacterSpeak(character_id, text, action_type) ==
  /\ IF World.characters[character_id].exists
     THEN Commit(CharacterSpeakDo(World, character_id, text, action_type))
     ELSE UNCHANGED worldVars
  /\ UNCHANGED <<sessVars, now, callVars, auxVars>>

\* handleCharacterTool('character_add_memory', ...)
CharacterAddMemory(character_id) ==
  /\ IF World.characters[character_id].exists
     THEN Commit(CharacterAddMemoryDo(World, character_id))
     ELSE UNCHANGED worldVars
  /\ UNCHANGED <<sessVars, now, callVars, auxVars>>

\* executeAction(characterId, {action: 'wait'})
WaitAction(characterId) ==
  /\ Commit(ExecuteAction(World, characterId, "wait"))
  /\ UNCHANGED <<sessVars, now, callVars, auxVars>>

\* Character.create({character_class, current_area_id, memory}): the new row
\* takes the next id of the sequence; `memory` is stored as given.
MaxSeed == 4
MaxCreated == 1
Texts == {<<"hello">>, <<"open", "sesame">>}
ActionTypes == {"speech", "action", "thought"}

Existing == {c \in CharIds : characters[c].exists}

CharacterCreate(class, area, n) ==
  /\ Cardinality(Existing) < MaxCreated
  /\ LET id == Cardinality(Existing) + 1
     IN  characters' = [characters EXCEPT ![id] =
                          [NewChar(1, area, class) EXCEPT
                             !.memory = [m \in 1..n |-> "seed"]]]
  /\ UNCHANGED <<items, areas, nextItemId, sessVars, now, callVars, auxVars>>

InitMemory ==
  /\ characters = [c \in CharIds |-> NoChar]
  /\ items = [i \in ItemIds |->
                IF i = 1 THEN [exists |-> TRUE, world |-> 1, area |-> 1,
                               holder |-> Null, loc |-> "null"]
                ELSE NoItem]
  /\ areas = [a \in AreaIds |-> IF a = 1 THEN NewArea(1, <<>>) ELSE NoArea]
  /\ nextItemId = 2
  /\ sessions = {}
  /\ nextToken = 1
  /\ now = 0
  /\ calls = [k \in CallIds |-> IdleCall]
  /\ released = {}
  /\ InitAux

NextMemory ==
  \/ \E class \in {"minor", "story"}, a \in {Null, 1}, n \in 0..MaxSeed :
       CharacterCreate(class, a, n)
  \/ \E c \in CharIds : CharacterAddMemory(c)
  \/ \E c \in CharIds, text \in Texts : CharacterSpeak(c, text, "speech")
  \/ \E c \in CharIds : WaitAction(c)
  \/ \E c \in CharIds, i \in ItemIds, l \in Locations : ItemPickup(c, i, l)
  \/ \E c \in CharIds, i \in ItemIds : ItemDrop(c, i)

SpecMemory == InitMemory /\ [][NextMemory]_vars

\* ------------------------------------------------------------- agent actions
\* An LLM response is a sequence of tokens: a brace, a comma, white space, a
\* word of prose, or a member "key": "value" of an object.  A string value is
\* the sequence of its words, <<>> being ""; a field the object does not have
\* reads as undefined, which is falsy like "", and is <<>> as well.
Token(kind) == [kind |-> kind, key |-> "", value |-> <<>>]

Member(key, value) == [kind |-> "member", key |-> key, value |-> value]

\* response.trim()
RECURSIVE TrimStart(_)
TrimStart(s) ==
  IF s # <<>> /\ Head(s).kind = "ws" THEN TrimStart(Tail(s)) ELSE s

RECURSIVE TrimEnd(_)
TrimEnd(s) ==
  IF s # <<>> /\ s[Len(s)].kind = "ws" THEN TrimEnd(SubSeq(s, 1, Len(s) - 1)) ELSE s

Trim(s) == TrimEnd(TrimStart(s))

\* if (cleaned.startsWith('{') && !cleaned.endsWith('}')) cleaned += '}'
AddClosingBrace(cleaned) ==
  IF cleaned # <<>> /\ Head(cleaned).kind = "{" /\ cleaned[Len(cleaned)].kind # "}"
  THEN Append(cleaned, Token("}"))
  ELSE cleaned

\* cleaned.match(/\{[\s\S]*\}/): from the first "{" to the last "}" after it;
\* <<>> is no match
JsonMatch(cleaned) ==
  LET opens == {i \in 1..Len(cleaned) : cleaned[i].kind = "{"}
      first == CHOOSE i \in opens : \A j \in opens : i <= j
      closes == {j \in 1..Len(cleaned) : cleaned[j].kind = "}" /\ j > first}
      last == CHOOSE j \in closes : \A i \in closes : i <= j
  IN  IF opens = {} THEN <<>>
      ELSE IF closes = {} THEN <<>>
      ELSE SubSeq(cleaned, first, last)

\* whether JSON.parse accepts the text as an object: braces around members
\* separated by commas, white space anywhere between them
IsJsonObject(text) ==
  LET inner == SelectSeq(SubSeq(text, 2, Len(text) - 1), LAMBDA t : t.kind # "ws")
  IN  /\ Len(text) >= 2
      /\ text[1].kind = "{"
      /\ text[Len(text)].kind = "}"
      /\ \/ inner = <<>>
         \/ /\ Len(inner) % 2 = 1
            /\ \A n \in 1..Len(inner) :
                 inner[n].kind = IF n % 2 = 1 THEN "member" ELSE ","

\* object[key] of the object JSON.parse returns: the last member of that name
FieldValue(text, key) ==
  LET at == {n \in 1..Len(text) : text[n].kind = "member" /\ text[n].key = key}
  IN  IF at = {} THEN <<>>
      ELSE text[CHOOSE n \in at : \A m \in at : m <= n].value

\* parseAction returning null
NoAction == [parsed |-> FALSE, action |-> "", text |-> <<>>]

\* mutant of ParseAction: no closing brace is added
ParseActionAsIs(response) ==
  LET jsonMatch == JsonMatch(Trim(response))
  IN  IF jsonMatch = <<>> THEN NoAction
      ELSE IF ~IsJsonObject(jsonMatch) THEN NoAction
      ELSE IF FieldValue(jsonMatch, "action") = <<>> THEN NoAction
      ELSE [parsed |-> TRUE, action |-> JoinWords(FieldValue(jsonMatch, "action")),
            text |-> FieldValue(jsonMatch, "text")]

\* parseAction(response): null when nothing matches, when JSON.parse throws
\* (the catch) and when action.action is falsy
ParseAction(response) ==
  LET jsonMatch == JsonMatch(AddClosingBrace(Trim(response)))
  IN  IF jsonMatch = <<>> THEN NoAction
      ELSE IF ~IsJsonObject(jsonMatch) THEN NoAction
      ELSE IF FieldValue(jsonMatch, "action") = <<>> THEN NoAction
      ELSE [parsed |-> TRUE, action |-> JoinWords(FieldValue(jsonMatch, "action")),
            text |-> FieldValue(jsonMatch, "text")]

\* executeSpeakAction: an error result without text, else character_speak
\* with action_type 'speech'
ExecuteSpeakAction(w, characterId, action) ==
  IF action.text = <<>> THEN [world |-> w, success |-> FALSE]
  ELSE LET w1 == CharacterSpeakDo(w, characterId, action.text, "speech")
       IN  [world |-> w1, success |-> ~w1.error]

\* executeAction(characterId, action) for the actions speak, wait and sleep
\* and for an unknown one: the world it leaves and result.success (false too
\* when a handler threw, by the catch)
ExecuteActionResult(w, characterId, action) ==
  IF action.action = "speak" THEN ExecuteSpeakAction(w, characterId, action)
  ELSE IF action.action \in {"wait", "sleep"}
  THEN LET w1 == ExecuteAction(w, characterId, action.action)
       IN  [world |-> w1, success |-> ~w1.error]
  ELSE [world |-> w, success |-> FALSE]

\* this.stats of the controller after its constructor
NoStats == [totalActions |-> 0, successfulActions |-> 0, failedActions |-> 0]

\* processCharacter once generate has returned the response: the world and
\* the stats it leaves.  executeAction throws for a character that is gone.
ProcessResponse(w, stats, characterId, response) ==
  LET action == ParseAction(response)
      result == ExecuteActionResult(w, characterId, action)
  IN  IF ~action.parsed \/ ~w.characters[characterId].exists
      THEN [world |-> w, stats |-> [stats EXCEPT !.failedActions = @ + 1]]
      ELSE [world |-> result.world,
            stats |-> IF result.success
                      THEN [stats EXCEPT !.successfulActions = @ + 1,
                                         !.totalActions = @ + 1]
                      ELSE [stats EXCEPT !.failedActions = @ + 1,
                                         !.totalActions = @ + 1]]

\* what the model lets the language model answer: an object of an action
\* member, a text member, both or none, whole or without its closing brace;
\* one without text also inside white space, after a word of prose or, if
\* whole, followed by a stray brace; prose alone; nothing
ActionMembers ==
  {Member("action", a) : a \in {<<"speak">>, <<"wait">>, <<"sleep">>, <<"dance">>, <<>>}}

TextMembers == {Member("text", t) : t \in Texts \cup {<<>>}}

CutShort == {<<Token("{")>>} \cup {<<Token("{"), a>> : a \in ActionMembers}

CutObjects ==
  CutShort
    \cup {<<Token("{"), t>> : t \in TextMembers}
    \cup {<<Token("{"), a, Token(","), t>> : a \in ActionMembers, t \in TextMembers}

Whole(object) == Append(object, Token("}"))

Responses ==
  LET short == CutShort \cup {Whole(o) : o \in CutShort}
  IN  CutObjects
        \cup {Whole(o) : o \in CutObjects}
        \cup {<<Token("ws")>> \o o \o <<Token("ws")>> : o \in short}
        \cup {<<Token("prose")>> \o o : o \in short}
        \cup {Whole(Whole(o)) : o \in CutShort}
        \cup {<<>>, <<Token("prose")>>}

\* one turn of a character from the LLM's response on
AgentTurn(characterId, response) ==
  /\ Commit(ProcessResponse(World, NoStats, characterId, response).world)
  /\ UNCHANGED <<sessVars, now, callVars, auxVars>>

\* Two minor characters in area 1, where saying "sesame" opens a secret exit
\* once and saying "hello" warms the room.
SpeechTriggers ==
  << CreateTrigger(ObjectCondition("character_speech", <<"sesame">>, Null, Null),
                   <<[Reaction("add_exit") EXCEPT !.direction = "secret",
                                                  !.target_area_id = 2]>>,
                   TRUE),
     CreateTrigger(ObjectCondition("character_speech", <<"hello">>, Null, Null),
                   <<[Reaction("modify_temperature") EXCEPT !.has_temperature_delta = TRUE,
                                                         !.temperature_delta = 500]>>,
                   FALSE) >>

InitAgent ==
  /\ characters = [c \in CharIds |-> IF c <= 2 THEN NewChar(1, 1, "minor") ELSE NoChar]
  /\ items = [i \in ItemIds |-> NoItem]
  /\ areas = [a \in AreaIds |->
                IF a = 1 THEN NewArea(1, SpeechTriggers)
                ELSE IF a = 2 THEN NewArea(1, <<>>) ELSE NoArea]
  /\ nextItemId = 1
  /\ sessions = {}
  /\ nextToken = 1
  /\ now = 0
  /\ calls = [k \in CallIds |-> IdleCall]
  /\ released = {}
  /\ InitAux

NextAgent == \E c \in CharIds, response \in Responses : AgentTurn(c, response)

SpecAgent == InitAgent /\ [][NextAgent]_vars

\* ------------------------------------------------------ concurrent appends
\* character_speak (with action_type 'speech') and character_add_memory as
\* the steps between their awaits, so that two calls interleave.
OpsRunning == {k \in OpIds : ops.slot[k].pc # "idle"}

\* the memory entry of a call: `speech: ${text}`, `picked up ${item.name}` or
\* args.action
OpEntry(op) ==
  IF op.tool = "character_speak" THEN "speech: " \o JoinWords(op.text)
  ELSE IF op.tool = "item_pickup" THEN "picked up"
  ELSE "added"

\* the handler of slot k returns its result
OpReturn(o, k) ==
  [o EXCEPT !.slot[k] = NoOp,
            !.picked = IF o.slot[k].tool = "item_pickup"
                       THEN @ \cup {[character_id |-> o.slot[k].character_id,
                                     item_id |-> o.slot[k].item_id]}
                       ELSE @]

\* the handler's own Character.findById: it throws for no row, else keeps the
\* row for character_class and current_area_id
OpFind(k, tool, character_id, text) ==
  /\ ops.slot[k].pc = "idle"
  /\ Len(ops.appended) + Cardinality(OpsRunning) < MaxAppends
  /\ characters[character_id].exists
  /\ ops' = [ops EXCEPT !.slot[k] =
               [NoOp EXCEPT !.tool = tool, !.pc = "read", !.character_id = character_id,
                            !.text = text,
                            !.maxRecent = MaxRecent(characters[character_id]),
                            !.area = characters[character_id].area]]
  /\ UNCHANGED <<worldVars, sessVars, now, callVars, sockets, request, sched, client, db>>

\* Character.addMemory: findById, returning null for no row
OpReadMemory(k) ==
  LET op == ops.slot[k]
  IN  /\ op.pc = "read"
      /\ ops' = IF characters[op.character_id].exists
                 THEN [ops EXCEPT !.slot[k].pc = "update",
                                  !.slot[k].memory = characters[op.character_id].memory]
                 ELSE OpReturn(ops, k)
      /\ UNCHANGED <<worldVars, sessVars, now, callVars, sockets, request, sched, client, db>>

\* Character.addMemory: push, shift, Character.update(id, {memory}) with the
\* array that was read
OpUpdateMemory(k) ==
  LET op == ops.slot[k]
      memory == ShiftOldest(Append(op.memory, OpEntry(op)), op.maxRecent)
  IN  /\ op.pc = "update"
      /\ characters' = IF characters[op.character_id].exists
                       THEN [characters EXCEPT ![op.character_id].memory = memory]
                       ELSE characters
      /\ ops' = LET o == [ops EXCEPT !.appended =
                                     Append(@, [character_id |-> op.character_id,
                                                entry |-> OpEntry(op)])]
                 IN  IF op.tool = "character_speak" /\ op.area # Null
                     THEN [o EXCEPT !.slot[k].pc = "triggers"]
                     ELSE OpReturn(o, k)
      /\ UNCHANGED <<items, areas, nextItemId, sessVars, now, callVars, sockets, request,
                     sched, client, db>>

\* character_speak: executeTriggers(character.current_area_id,
\* 'character_speech', ...) up to its Area.findById: it returns for no area
\* and no triggers, else keeps the list and the matched triggers
OpReadTriggers(k) ==
  LET op == ops.slot[k]
      area == areas[op.area]
      matched == MatchedFrom(area.triggers, "character_speech",
                             EventData(op.character_id, Null, op.text), 1)
  IN  /\ op.pc = "triggers"
      /\ ops' = IF ~area.exists \/ area.triggers = <<>> THEN OpReturn(ops, k)
                ELSE IF matched = <<>> THEN OpReturn(ops, k)
                ELSE [ops EXCEPT !.slot[k].pc = "react",
                                 !.slot[k].triggers = area.triggers,
                                 !.slot[k].matched = matched]
      /\ UNCHANGED <<worldVars, sessVars, now, callVars, sockets, request, sched, client, db>>

\* one pass of executeTriggers' second loop: executeReactions of the next
\* matched trigger and, if it is one-time, Area.update with the list that was
\* read less that trigger.  What a reaction throws ends the handler.
OpReact(k) ==
  LET op == ops.slot[k]
      n == Head(op.matched)
      trigger == op.triggers[n]
      w1 == ExecuteReactions(World, op.area, trigger.reactions)
      w2 == IF trigger.one_time /\ w1.areas[op.area].exists
            THEN [w1 EXCEPT !.areas[op.area].triggers = WithoutIndex(op.triggers, n)]
            ELSE w1
      o == [ops EXCEPT !.reacted = Append(@, trigger)]
  IN  /\ op.pc = "react"
      /\ Commit(IF w1.error THEN w1 ELSE w2)
      /\ ops' = IF w1.error THEN [o EXCEPT !.slot[k] = NoOp]
                ELSE IF Tail(op.matched) = <<>> THEN OpReturn(o, k)
                ELSE [o EXCEPT !.slot[k].matched = Tail(op.matched)]
      /\ UNCHANGED <<sessVars, now, callVars, sockets, request, sched, client, db>>

\* A minor character with two memories and a story character with none, in
\* area 1, where saying "sesame" opens a secret exit once.
SeedMemory(c) == IF c = 1 THEN <<"seed", "seed">> ELSE <<>>

InitAppend ==
  /\ characters = [c \in CharIds |->
                     IF c <= 2
                     THEN [NewChar(1, 1, IF c = 1 THEN "minor" ELSE "story")
                             EXCEPT !.memory = SeedMemory(c)]
                     ELSE NoChar]
  /\ items = [i \in ItemIds |-> NoItem]
  /\ areas = [a \in AreaIds |->
                IF a = 1 THEN NewArea(1, SpeechTriggers)
                ELSE IF a = 2 THEN NewArea(1, <<>>) ELSE NoArea]
  /\ nextItemId = 1
  /\ sessions = {}
  /\ nextToken = 1
  /\ now = 0
  /\ calls = [k \in CallIds |-> IdleCall]
  /\ released = {}
  /\ InitAux

NextAppend ==
  \/ \E k \in OpIds, c \in CharIds, text \in Texts : OpFind(k, "character_speak", c, text)
  \/ \E k \in OpIds, c \in CharIds : OpFind(k, "character_add_memory", c, <<>>)
  \/ \E k \in OpIds : OpReadMemory(k)
  \/ \E k \in OpIds : OpUpdateMemory(k)
  \/ \E k \in OpIds : OpReadTriggers(k)
  \/ \E k \in OpIds : OpReact(k)

SpecAppend == InitAppend /\ [][NextAppend]_vars

\* ------------------------------------------------------ concurrent pickups
\* item_pickup as the steps between its awaits.
\* Character.findById of the handler
OpPickupFind(k, character_id, item_id, location) ==
  /\ ops.slot[k].pc = "idle"
  /\ Len(ops.appended) + Cardinality(OpsRunning) < MaxAppends
  /\ characters[character_id].exists
  /\ ops' = [ops EXCEPT !.slot[k] =
               [NoOp EXCEPT !.tool = "item_pickup", !.pc = "find item",
                            !.character_id = character_id, !.item_id = item_id,
                            !.location = location,
                            !.maxRecent = MaxRecent(characters[character_id]),
                            !.area = characters[character_id].area]]
  /\ UNCHANGED <<worldVars, sessVars, now, callVars, sockets, request, sched, client, db>>

\* Item.findById and the area check: the handler throws for no item and for
\* an item that is not in the area of the character it read
OpFindItem(k) ==
  LET op == ops.slot[k]
  IN  /\ op.pc = "find item"
      /\ ops' = [ops EXCEPT !.slot[k] =
                   IF items[op.item_id].exists /\ items[op.item_id].area = op.area
                   THEN [op EXCEPT !.pc = "give"] ELSE NoOp]
      /\ UNCHANGED <<worldVars, sessVars, now, callVars, sockets, request, sched, client, db>>

\* Item.giveToCharacter
OpGive(k) ==
  LET op == ops.slot[k]
  IN  /\ op.pc = "give"
      /\ Commit(IF items[op.item_id].exists
                THEN GiveToCharacter(World, op.item_id, op.character_id, op.location)
                ELSE World)
      /\ ops' = [ops EXCEPT !.slot[k].pc =
                   IF op.area # Null THEN "pickup triggers" ELSE "read"]
      /\ UNCHANGED <<sessVars, now, callVars, sockets, request, sched, client, db>>

\* executeTriggers(character.current_area_id, 'item_picked_up', ...): the
\* handler throws what a reaction throws
OpPickupTriggers(k) ==
  LET op == ops.slot[k]
      w == ExecuteTriggers(World, op.area, "item_picked_up",
                           EventData(op.character_id, op.item_id, <<>>))
  IN  /\ op.pc = "pickup triggers"
      /\ Commit(w)
      /\ ops' = [ops EXCEPT !.slot[k] = IF w.error THEN NoOp ELSE [op EXCEPT !.pc = "read"]]
      /\ UNCHANGED <<sessVars, now, callVars, sockets, request, sched, client, db>>

\* Two characters in area 1 with both items on its floor; picking up item 2
\* warms the room.
PickupTriggers ==
  << CreateTrigger(ObjectCondition("item_picked_up", <<>>, Null, 2),
                   <<[Reaction("modify_temperature") EXCEPT !.has_temperature_delta = TRUE,
                                                            !.temperature_delta = 5]>>,
                   FALSE) >>

InitPickup ==
  /\ characters = [c \in CharIds |-> IF c <= 2 THEN NewChar(1, 1, "minor") ELSE NoChar]
  /\ items = [i \in ItemIds |->
                IF i <= 2 THEN [exists |-> TRUE, world |-> 1, area |-> 1,
                                holder |-> Null, loc |-> "null"]
                ELSE NoItem]
  /\ areas = [a \in AreaIds |-> IF a = 1 THEN NewArea(1, PickupTriggers) ELSE NoArea]
  /\ nextItemId = MaxItems + 1
  /\ sessions = {}
  /\ nextToken = 1
  /\ now = 0
  /\ calls = [k \in CallIds |-> IdleCall]
  /\ released = {}
  /\ InitAux

NextPickup ==
  \/ \E k \in OpIds, c \in CharIds, i \in ItemIds, l \in {"right hand", "left hand"} :
       OpPickupFind(k, c, i, l)
  \/ \E k \in OpIds : OpFindItem(k)
  \/ \E k \in OpIds : OpGive(k)
  \/ \E k \in OpIds : OpPickupTriggers(k)
  \/ \E k \in OpIds : OpReadMemory(k)
  \/ \E k \in OpIds : OpUpdateMemory(k)

SpecPickup == InitPickup /\ [][NextPickup]_vars

\* ------------------------------------------------------- moving about
\* Entering area 1 rewrites its description, and saying "sesame" there opens
\* a secret exit, once.  Area 2 opens an exit the first time it is entered,
\* notes the visit the first time, and warms by 500 degrees at every entry.
NumMoveWorlds == 2
MoveWorldIds == 1..NumMoveWorlds

EnterTriggers1 ==
  << CreateTrigger(StringCondition("character_enters"),
                   <<[Reaction("modify_description") EXCEPT !.new_description = "entered"]>>,
                   FALSE),
     CreateTrigger(ObjectCondition("character_speech", <<"sesame">>, Null, Null),
                   <<[Reaction("add_exit") EXCEPT !.direction = "secret",
                                                  !.target_area_id = 2]>>, TRUE) >>

EnterTriggers2 ==
  << CreateTrigger(StringCondition("character_enters"),
                   <<[Reaction("add_exit") EXCEPT !.direction = "north",
                                                  !.target_area_id = 1]>>, TRUE),
     CreateTrigger(ObjectCondition("character_enters", <<>>, Null, Null),
                   <<[Reaction("modify_description") EXCEPT !.append_description = "visited"]>>,
                   TRUE),
     CreateTrigger(StringCondition("character_enters"),
                   <<[Reaction("modify_temperature") EXCEPT !.has_temperature_delta = TRUE,
                                                            !.temperature_delta = 500]>>,
                   FALSE) >>

\* character 1 stands in area 1, character 2 has no area; both are of world
\* 1, as is area 1; area 2 is of any world.
InitMove ==
  /\ characters = [c \in CharIds |->
                     IF c = 1 THEN NewChar(1, 1, "minor")
                     ELSE IF c = 2 THEN NewChar(1, Null, "minor") ELSE NoChar]
  /\ items = [i \in ItemIds |-> NoItem]
  /\ \E world \in MoveWorldIds :
       areas = [a \in AreaIds |->
                  IF a = 1 THEN NewArea(1, EnterTriggers1)
                  ELSE IF a = 2 THEN NewArea(world, EnterTriggers2) ELSE NoArea]
  /\ nextItemId = 1
  /\ sessions = {}
  /\ nextToken = 1
  /\ now = 0
  /\ calls = [k \in CallIds |-> IdleCall]
  /\ released = {}
  /\ InitAux

NextMove ==
  \/ \E c \in CharIds, a \in AreaIds : CharacterMove(c, a)
  \/ \E c \in CharIds, text \in Texts : CharacterSpeak(c, text, "speech")
  \/ \E a \in AreaIds : AreaDelete(a)

SpecMove == InitMove /\ [][NextMove]_vars


\* ------------------------------------------------------------- agent moves
\* the direction member of a move action; "" stands for a missing or empty one
MoveDirections == {"", "north", "North", "NORTH", "secret", "west"}

\* String.prototype.toLowerCase on the directions above
ToLowerCase(s) ==
  CASE s = "North" -> "north"
    [] s = "NORTH" -> "north"
    [] OTHER -> s

\* mutant of ExitOfDirection: the direction is looked up as the model wrote it
ExitOfDirectionAsTyped(area, direction) ==
  IF direction \in DOMAIN area.exits THEN area.exits[direction] ELSE Null

\* executeMoveAction: (currentArea.exits || {})[action.direction.toLowerCase()]
ExitOfDirection(area, direction) ==
  IF ToLowerCase(direction) \in DOMAIN area.exits
  THEN area.exits[ToLowerCase(direction)] ELSE Null

\* executeAction for {action: 'move', direction}: the world it leaves and
\* result.success.  A throw of character_move is caught by executeAction.
ExecuteMoveAction(w, characterId, direction) ==
  LET character == w.characters[characterId]
      failed == [world |-> w, success |-> FALSE]
  IN  IF ~character.exists \/ direction = "" \/ character.area = Null THEN failed
      ELSE IF ~w.areas[character.area].exists THEN failed
      ELSE LET targetAreaId == ExitOfDirection(w.areas[character.area], direction)
           IN  IF targetAreaId = Null THEN failed
               ELSE IF CharacterMoveError(w, characterId, targetAreaId) # "ok" THEN failed
               ELSE LET w1 == CharacterMoveDo(w, characterId, targetAreaId)
                    IN  [world |-> w1, success |-> ~w1.error]

\* processCharacter executes a move action; slot k keeps the action and the
\* result object {success, direction, from}
AgentMove(k, c, direction) ==
  /\ characters[c].exists
  /\ LET r == ExecuteMoveAction(World, c, direction)
     IN  /\ Commit(r.world)
         /\ ops' = [ops EXCEPT !.slot[k] =
                      [NoOp EXCEPT !.tool = "move",
                                   !.pc = IF r.success THEN "success" ELSE "failure",
                                   !.character_id = c,
                                   !.location = direction,
                                   !.area = characters[c].area]]
  /\ UNCHANGED <<sessVars, now, callVars, sockets, request, sched, client, db>>

\* area 1 leads to area 2 under the keys "secret" and "North" and has no key
\* "north"; area 2 leads north to area 1.
WalkExits(a) ==
  IF a = 1 THEN [NoExits EXCEPT !["secret"] = 2, !["North"] = 2]
  ELSE [NoExits EXCEPT !["north"] = 1]

InitWalk ==
  /\ characters = [c \in CharIds |->
                     IF c = 1 THEN NewChar(1, 1, "minor")
                     ELSE IF c = 2 THEN NewChar(1, 2, "minor") ELSE NoChar]
  /\ items = [i \in ItemIds |-> NoItem]
  /\ areas = [a \in AreaIds |->
                IF a = 1 THEN [NewArea(1, EnterTriggers1) EXCEPT !.exits = WalkExits(1)]
                ELSE IF a = 2 THEN [NewArea(1, EnterTriggers2) EXCEPT !.exits = WalkExits(2)]
                ELSE NoArea]
  /\ nextItemId = 1
  /\ sessions = {}
  /\ nextToken = 1
  /\ now = 0
  /\ calls = [k \in CallIds |-> IdleCall]
  /\ released = {}
  /\ InitAux

NextWalk ==
  \/ \E c \in CharIds, direction \in MoveDirections : AgentMove(1, c, direction)
  \/ \E a \in AreaIds : AreaDelete(a)

SpecWalk == InitWalk /\ [][NextWalk]_vars

\* ------------------------------------------------------ trigger conditions
\* Area 1 carries one repeating trigger with an object condition, any of
\* the documented shape {type, keywords?, character_id?, item_id?}; its
\* reaction opens the secret exit.
EventTypes == {"character_enters", "character_speech", "item_picked_up", "item_dropped"}

KeywordLists == {<<>>, <<"sesame">>}

ObjectConditions ==
  {ObjectCondition(type, keywords, character_id, item_id) :
     type \in EventTypes, keywords \in KeywordLists,
     character_id \in CharIds \cup {Null}, item_id \in ItemIds \cup {Null}}

InitFire ==
  /\ characters = [c \in CharIds |->
                     IF c = 1 THEN NewChar(1, 1, "minor")
                     ELSE IF c = 2 THEN NewChar(1, Null, "minor") ELSE NoChar]
  /\ items = [i \in ItemIds |-> NoItem]
  /\ \E condition \in ObjectConditions :
       areas = [a \in AreaIds |->
                  IF a = 1
                  THEN NewArea(1, << CreateTrigger(condition,
                                       <<[Reaction("add_exit") EXCEPT !.direction = "secret",
                                                                      !.target_area_id = 2]>>,
                                       FALSE) >>)
                  ELSE IF a = 2 THEN NewArea(1, <<>>) ELSE NoArea]
  /\ nextItemId = 1
  /\ sessions = {}
  /\ nextToken = 1
  /\ now = 0
  /\ calls = [k \in CallIds |-> IdleCall]
  /\ released = {}
  /\ InitAux

NextFire ==
  \/ \E c \in CharIds, a \in AreaIds : CharacterMove(c, a)
  \/ \E c \in CharIds, text \in Texts : CharacterSpeak(c, text, "speech")

SpecFire == InitFire /\ [][NextFire]_vars

\* ------------------------------------------------------ items of other worlds
\* Area 1, of world 1, deletes item 1 whenever someone enters.  Item 1 lies
\* in area 2 and is of area 2's world, which is any world.
RemoveTriggers ==
  << CreateTrigger(StringCondition("character_enters"),
                   <<[Reaction("remove_item") EXCEPT !.item_id = 1]>>, FALSE) >>

InitRemove ==
  /\ characters = [c \in CharIds |->
                     IF c = 1 THEN NewChar(1, 1, "minor")
                     ELSE IF c = 2 THEN NewChar(1, Null, "minor") ELSE NoChar]
  /\ \E world \in MoveWorldIds :
       /\ items = [i \in ItemIds |->
                     IF i = 1 THEN [exists |-> TRUE, world |-> world, area |-> 2,
                                    holder |-> Null, loc |-> "null"]
                     ELSE NoItem]
       /\ areas = [a \in AreaIds |->
                     IF a = 1 THEN NewArea(1, RemoveTriggers)
                     ELSE IF a = 2 THEN NewArea(world, <<>>) ELSE NoArea]
  /\ nextItemId = 2
  /\ sessions = {}
  /\ nextToken = 1
  /\ now = 0
  /\ calls = [k \in CallIds |-> IdleCall]
  /\ released = {}
  /\ InitAux

NextRemove ==
  \/ \E c \in CharIds, a \in AreaIds : CharacterMove(c, a)
  \/ \E c \in CharIds, text \in Texts : CharacterSpeak(c, text, "speech")

SpecRemove == InitRemove /\ [][NextRemove]_vars

\* ------------------------------------------------- deleting a claimed character
\* claims of character 1 and validation as above, and Character.delete,
\* each call made when no other is running
NextDelete ==
  \/ \E p \in Players : NoCallRunning /\ ClaimFind(1, p, 1)
  \/ ClaimUpdate(1)
  \/ ClaimSession(1)
  \/ CallReturn(1)
  \/ \E t \in 1..MaxTokens : ValidateSession(t)
  \/ \E c \in CharIds : NoCallRunning /\ CharacterDelete(c)
  \/ AdvanceClock

SpecDelete == InitSession /\ [][NextDelete]_vars

\* ------------------------------------------------------------- agent controller
WORLD_ID == 1

\* the members of S in ascending id order
RECURSIVE IdsFrom(_, _)
IdsFrom(S, n) ==
  IF n > NumChars THEN <<>>
  ELSE (IF n \in S THEN <<n>> ELSE <<>>) \o IdsFrom(S, n + 1)

\* Character.findAIControllable: WHERE world_id = $1 AND owner_id IS NULL AND
\* alertness >= 20 ORDER BY character_class DESC, id ASC
FindAIControllable(chars, world_id) ==
  LET ok(c) == /\ chars[c].exists /\ chars[c].world = world_id
               /\ chars[c].owner = Null
               /\ chars[c].alertness # NullPct /\ chars[c].alertness >= 20
  IN  IdsFrom({c \in CharIds : ok(c) /\ chars[c].class = "story"}, 1)
        \o IdsFrom({c \in CharIds : ok(c) /\ chars[c].class = "minor"}, 1)

\* the runCycle calls in progress
Running(s) == {k \in CycleIds : s.cycles[k].pc # "idle"}

\* the chains of cycles alive: each is in a runCycle or waits for its timer
Chains(s) == s.timers + Cardinality(Running(s))

\* a call of runCycle begins, in the first slot not in use
RunCycle(s) ==
  LET k == CHOOSE j \in CycleIds \ Running(s) :
             \A i \in CycleIds \ Running(s) : j <= i
  IN  [s EXCEPT !.cycles[k] = [IdleCycle EXCEPT !.pc = "query"]]

\* scheduleNextCycle: nothing when not running, else setTimeout
ScheduleNextCycle(s) ==
  IF ~s.running THEN s ELSE [s EXCEPT !.timers = @ + 1]

\* runCycle k returns; its caller (start, or the timer callback) then calls
\* scheduleNextCycle
ReturnCycle(s, k) ==
  ScheduleNextCycle([s EXCEPT !.cycles[k].pc = "idle", !.cycles[k].queue = <<>>])

\* processCharacter returns (normally or through its catch) and the for loop
\* of runCycle k moves to the next character of its array
NextCharacter(s, k) ==
  LET c == s.cycles[k]
      s1 == [s EXCEPT !.cycles[k].processed = Append(@, Head(c.queue))]
  IN  IF Len(c.queue) <= 1 THEN ReturnCycle(s1, k)
      ELSE [s1 EXCEPT !.cycles[k].pc = "tick", !.cycles[k].queue = Tail(c.queue)]

\* AgentController.start: running = true, lastCycleTime = Date.now(), then
\* the first runCycle
SchedStart ==
  /\ ~sched.running
  /\ Chains(sched) < MaxCycles
  /\ sched' = RunCycle([sched EXCEPT !.running = TRUE, !.lag = 0])
  /\ UNCHANGED <<worldVars, sessVars, now, callVars, rpcVars>>

\* AgentController.stop: running = false, llmManager.dispose(); the pending
\* timers are not cleared
SchedStop ==
  /\ sched.running
  /\ sched' = [sched EXCEPT !.running = FALSE, !.initialized = FALSE]
  /\ UNCHANGED <<worldVars, sessVars, now, callVars, rpcVars>>

\* a timer of scheduleNextCycle fires: its callback calls runCycle
SchedTimer ==
  /\ sched.timers > 0
  /\ sched' = RunCycle([sched EXCEPT !.timers = @ - 1])
  /\ UNCHANGED <<worldVars, sessVars, now, callVars, rpcVars>>

\* runCycle: the eligibility query returns, `elapsed` seconds after the
\* latest cycle.  With no character found it returns at once; else
\* secondsPassed = (now - this.lastCycleTime) / 1000 is computed once and
\* lastCycleTime = now.
SchedQuery(k, elapsed) ==
  /\ sched.cycles[k].pc = "query"
  /\ sched.lag + elapsed <= MaxLag
  /\ LET found == FindAIControllable(characters, WORLD_ID)
     IN  sched' = IF found = <<>>
                  THEN ReturnCycle([sched EXCEPT !.lag = @ + elapsed], k)
                  ELSE [sched EXCEPT !.lag = 0,
                                     !.cycles[k].pc = "tick",
                                     !.cycles[k].queue = found,
                                     !.cycles[k].found = found,
                                     !.cycles[k].secondsPassed = sched.lag + elapsed]
  /\ UNCHANGED <<worldVars, sessVars, now, callVars, rpcVars>>

\* mutant of SchedTick: an exception of updatePhysicalState ends the cycle
SchedTickAborting(k) ==
  /\ sched.cycles[k].pc = "tick"
  /\ LET c == Head(sched.cycles[k].queue)
         secondsPassed == sched.cycles[k].secondsPassed
     IN  /\ Commit(UpdatePhysicalState(World, c, secondsPassed))
         /\ sched' = IF UpdatePhysicalStateError(World, c, secondsPassed) = "ok"
                     THEN [sched EXCEPT !.cycles[k].pc = "act"]
                     ELSE ReturnCycle(sched, k)
  /\ UNCHANGED <<sessVars, now, callVars, rpcVars>>

\* processCharacter: updatePhysicalState(character.id, secondsPassed); when it
\* throws, the catch ends the processing of this character
SchedTick(k) ==
  /\ sched.cycles[k].pc = "tick"
  /\ LET c == Head(sched.cycles[k].queue)
         secondsPassed == sched.cycles[k].secondsPassed
     IN  /\ Commit(UpdatePhysicalState(World, c, secondsPassed))
         /\ sched' = IF UpdatePhysicalStateError(World, c, secondsPassed) = "ok"
                     THEN [sched EXCEPT !.cycles[k].pc = "act"]
                     ELSE NextCharacter(sched, k)
  /\ UNCHANGED <<sessVars, now, callVars, rpcVars>>

\* processCharacter: llmManager.generate throws when the manager is not
\* initialized; else the generated action is parsed and executed
SchedAct(k, action) ==
  /\ sched.cycles[k].pc = "act"
  /\ IF sched.initialized
     THEN Commit(ExecuteAction(World, Head(sched.cycles[k].queue), action))
     ELSE UNCHANGED worldVars
  /\ sched' = NextCharacter(sched, k)
  /\ UNCHANGED <<sessVars, now, callVars, rpcVars>>

InitSched ==
  /\ characters = [c \in CharIds |-> IF c = 1 THEN NewChar(1, 1, "minor") ELSE NoChar]
  /\ items = [i \in ItemIds |-> NoItem]
  /\ areas = [a \in AreaIds |-> IF a = 1 THEN NewArea(1, <<>>) ELSE NoArea]
  /\ nextItemId = 1
  /\ sessions = {}
  /\ nextToken = 1
  /\ now = 0
  /\ calls = [k \in CallIds |-> IdleCall]
  /\ released = {}
  /\ InitAux

\* the controller's cycle, with players claiming characters meanwhile
NextSched ==
  \/ SchedStart
  \/ SchedTimer
  \/ \E k \in CycleIds, dt \in TickSeconds : SchedQuery(k, dt)
  \/ \E k \in CycleIds : SchedTick(k)
  \/ \E k \in CycleIds, a \in AgentActions : SchedAct(k, a)
  \/ \E k \in CallIds, p \in Players, c \in CharIds : ClaimFind(k, p, c)
  \/ \E k \in CallIds : ClaimUpdate(k)
  \/ \E k \in CallIds : ClaimSession(k)
  \/ \E k \in CallIds : CallReturn(k)

SpecSched == InitSched /\ [][NextSched]_vars


\* the life of the controller: start, stop, start again, timers and cycles.
\* Character 2 is a story character whose hydration was set to null, so that
\* its physiology tick throws; character 1 is a minor character.
InitCycle ==
  /\ characters = [c \in CharIds |->
                     IF c = 1 THEN NewChar(1, 1, "minor")
                     ELSE IF c = 2
                     THEN [NewChar(1, 1, "story") EXCEPT !.hydration = NullPct]
                     ELSE NoChar]
  /\ items = [i \in ItemIds |-> NoItem]
  /\ areas = [a \in AreaIds |-> IF a = 1 THEN NewArea(1, <<>>) ELSE NoArea]
  /\ nextItemId = 1
  /\ sessions = {}
  /\ nextToken = 1
  /\ now = 0
  /\ calls = [k \in CallIds |-> IdleCall]
  /\ released = {}
  /\ InitAux

NextCycle ==
  \/ SchedStart
  \/ SchedStop
  \/ SchedTimer
  \/ \E k \in CycleIds, dt \in TickSeconds : SchedQuery(k, dt)
  \/ \E k \in CycleIds : SchedTick(k)
  \/ \E k \in CycleIds, a \in AgentActions : SchedAct(k, a)

SpecCycle == InitCycle /\ [][NextCycle]_vars


\* the controller's cycle while one player claims and releases the character:
\* cycles that find nobody are followed by cycles that find the character
NextLag ==
  \/ SchedStart
  \/ SchedTimer
  \/ \E k \in CycleIds, elapsed \in TickSeconds : SchedQuery(k, elapsed)
  \/ \E k \in CycleIds : SchedTick(k)
  \/ \E k \in CycleIds, a \in AgentActions : SchedAct(k, a)
  \/ \E p \in Players : NoCallRunning /\ ClaimFind(1, p, 1)
  \/ ClaimUpdate(1)
  \/ ClaimSession(1)
  \/ NoCallRunning /\ ReleaseUpdate(1, 1)
  \/ ReleaseEndSessions(1)
  \/ CallReturn(1)

SpecLag == InitSched /\ [][NextLag]_vars

\* ------------------------------------------------------------- MCP server
MutatingTools ==
  {"character_move", "character_speak", "character_update_state",
   "character_add_memory", "item_pickup", "item_drop"}

\* tool names by the prefix the tools/call handler routes on
CharacterToolNames ==
  {"character_move", "character_speak", "character_update_state", "character_add_memory"}
ItemToolNames == {"item_pickup", "item_drop"}
ToolNames == MutatingTools \cup {"world_list"}
Methods == {"initialize", "tools/list", "tools/call", "ping"}

\* the arguments a client sends for character c
ToolArguments(c) ==
  [character_id |-> c, area_id |-> 2, item_id |-> IF c = 1 THEN 2 ELSE 1,
   held_location |-> "left hand", text |-> <<"hello">>, action_type |-> "speech",
   state |-> [NoUpdates4 EXCEPT !.tiredness = 19]]

\* handleCharacterTool(name, args): the world after the call (unchanged when
\* the tool throws)
HandleCharacterTool(w, name, args) ==
  CASE name = "character_move" ->
         IF CharacterMoveError(w, args.character_id, args.area_id) = "ok"
         THEN CharacterMoveDo(w, args.character_id, args.area_id) ELSE w
    [] name = "character_speak" ->
         IF w.characters[args.character_id].exists
         THEN CharacterSpeakDo(w, args.character_id, args.text, args.action_type) ELSE w
    [] name = "character_update_state" ->
         CharacterUpdateStateDo(w, args.character_id, args.state)
    [] name = "character_add_memory" ->
         IF w.characters[args.character_id].exists
         THEN CharacterAddMemoryDo(w, args.character_id) ELSE w
    [] OTHER -> w

\* handleItemTool(name, args)
HandleItemTool(w, name, args) ==
  CASE name = "item_pickup" ->
         IF ItemPickupError(w, args.character_id, args.item_id) = "ok"
         THEN ItemPickupDo(w, args.character_id, args.item_id, args.held_location) ELSE w
    [] name = "item_drop" ->
         IF ItemDropError(w, args.character_id, args.item_id) = "ok"
         THEN ItemDropDo(w, args.character_id, args.item_id) ELSE w
    [] OTHER -> w

\* the tools/call request handler: routes on the prefix of the tool name;
\* it reads no token and makes no canControl check
ToolsCall(w, message) ==
  IF message.name \in CharacterToolNames
  THEN HandleCharacterTool(w, message.name, ToolArguments(message.character_id))
  ELSE IF message.name \in ItemToolNames
  THEN HandleItemTool(w, message.name, ToolArguments(message.character_id))
  ELSE w

\* the 'message' listener that transport.start() would install
OnMessage(w, message) ==
  IF message.method = "tools/call" THEN ToolsCall(w, message) ELSE w

\* a response frame: code 0 stands for {id, result}, any other code for
\* {id, error: {code}}
Response(id, code) == [id |-> id, code |-> code]

\* what the 'message' listener sends back; when a request handler throws,
\* the catch answers with id null and code -32700
OnMessageResponses(message, id, threw) ==
  IF message.method \in {"tools/list", "tools/call"}
  THEN IF threw THEN <<Response(Null, 0 - 32700)>> ELSE <<Response(id, 0)>>
  ELSE IF message.method = "initialize" THEN <<Response(id, 0)>>
  ELSE <<Response(id, 0 - 32601)>>

\* mutant of ConnectionListeners: transport.start() has run
StartedListeners == {"message", "close", "error"}

\* the listeners a socket has after wss.on('connection'): the callback builds
\* the transport object but never calls its start(), and server.connect is
\* not called for WebSocket, so nothing listens
ConnectionListeners == {}

\* wss.on('connection')
WsConnect(k) ==
  /\ ~sockets[k].open
  /\ sockets' = [sockets EXCEPT ![k] = [open |-> TRUE, listeners |-> ConnectionListeners]]
  /\ UNCHANGED <<worldVars, sessVars, now, callVars, request, sched, client, ops, db>>

\* a client sends a message on an open socket: ws emits 'message'
WsMessage(k, message) ==
  /\ sockets[k].open
  /\ request.n < MaxMessages
  /\ \E threw \in IF "message" \in sockets[k].listeners THEN BOOLEAN ELSE {FALSE} :
       request' = [n |-> request.n + 1, socket |-> k, method |-> message.method,
                   name |-> message.name, character_id |-> message.character_id,
                   token |-> message.token,
                   responses |-> IF "message" \in sockets[k].listeners
                                 THEN OnMessageResponses(message, request.n + 1, threw)
                                 ELSE <<>>]
  /\ IF "message" \in sockets[k].listeners
     THEN Commit(OnMessage(World, message))
     ELSE UNCHANGED worldVars
  /\ UNCHANGED <<sockets, sessVars, now, callVars, sched, client, ops, db>>

\* the client disconnects
WsClose(k) ==
  /\ sockets[k].open
  /\ sockets' = [sockets EXCEPT ![k] = NoSocket]
  /\ UNCHANGED <<worldVars, sessVars, now, callVars, request, sched, client, ops, db>>

\* A world with two characters in area 1, character 1 claimed by player 1
\* (token 1), item 1 on the floor of area 1 and item 2 in character 1's hand.
InitRpc ==
  /\ characters = [c \in CharIds |->
                     IF c = 1 THEN [NewChar(1, 1, "minor") EXCEPT !.owner = 1]
                     ELSE IF c = 2 THEN NewChar(1, 1, "minor") ELSE NoChar]
  /\ items = [i \in ItemIds |->
                IF i = 1 THEN [exists |-> TRUE, world |-> 1, area |-> 1,
                               holder |-> Null, loc |-> "null"]
                ELSE IF i = 2 THEN [exists |-> TRUE, world |-> 1, area |-> Null,
                                    holder |-> 1, loc |-> "right hand"]
                ELSE NoItem]
  /\ areas = [a \in AreaIds |-> IF a <= 2 THEN NewArea(1, <<>>) ELSE NoArea]
  /\ nextItemId = MaxItems + 1
  /\ sessions = CreateSession({}, 1, 1, 1, 0)
  /\ nextToken = 2
  /\ now = 0
  /\ calls = [k \in CallIds |-> IdleCall]
  /\ released = {}
  /\ InitAux

NextRpc ==
  \/ \E k \in SocketIds : WsConnect(k)
  \/ \E k \in SocketIds, m \in Methods, name \in ToolNames, c \in CharIds,
        t \in 0..MaxTokens :
       WsMessage(k, [method |-> m, name |-> name, character_id |-> c, token |-> t])
  \/ \E k \in SocketIds : WsClose(k)

SpecRpc == InitRpc /\ [][NextRpc]_vars

\* ------------------------------------------------------------- MCP client
\* resolve(...) or reject(...) of the promise request() returned for id: the
\* call is counted, and a promise keeps the outcome of the first call
SettlePromise(promises, id, outcome) ==
  [p \in DOMAIN promises |->
     IF promises[p].id = id
     THEN [promises[p] EXCEPT !.calls = @ + 1,
                              !.outcome = IF @ = "pending" THEN outcome ELSE @]
     ELSE promises[p]]

\* ws.onopen
ClientOpen ==
  /\ ~client.connected
  /\ client' = [client EXCEPT !.connected = TRUE]
  /\ UNCHANGED <<worldVars, sessVars, now, callVars, sockets, request, sched, ops, db>>

\* ws.onclose: connected = false; the pending requests stay in the map
ClientClose ==
  /\ client.connected
  /\ client' = [client EXCEPT !.connected = FALSE]
  /\ UNCHANGED <<worldVars, sessVars, now, callVars, sockets, request, sched, ops, db>>

\* request(method, params): rejects at once when not connected, else takes
\* the next id, stores the executor's resolve and reject under it, sends the
\* message and sets the 30 s timer.  this.ws.send throws when this.ws is null
\* or still connecting (connected is a flag any socket's onopen sets): the
\* catch deletes the entry and rejects, and the timer is set all the same.
ClientRequest(sendThrows) ==
  /\ Len(client.promises) < MaxRequests
  /\ client' =
       IF ~client.connected
       THEN [client EXCEPT !.promises =
               Append(@, [id |-> Null, sent |-> FALSE, calls |-> 1,
                          outcome |-> "not connected"])]
       ELSE LET id == client.requestId + 1
            IN  IF sendThrows
                THEN [client EXCEPT !.requestId = id,
                                    !.timers = @ \cup {id},
                                    !.promises =
                                      Append(@, [id |-> id, sent |-> FALSE, calls |-> 1,
                                                 outcome |-> "send failed"])]
                ELSE [client EXCEPT !.requestId = id,
                                    !.pendingRequests = @ \cup {id},
                                    !.timers = @ \cup {id},
                                    !.promises =
                                      Append(@, [id |-> id, sent |-> TRUE, calls |-> 0,
                                                 outcome |-> "pending"])]
  /\ UNCHANGED <<worldVars, sessVars, now, callVars, sockets, request, sched, ops, db>>

\* handleMessage(message): a message whose id is truthy and in pendingRequests
\* takes the entry out of the map and rejects on message.error, else resolves
HandleMessage(c, message) ==
  IF message.id # Null /\ message.id \in c.pendingRequests
  THEN [c EXCEPT !.pendingRequests = @ \ {message.id},
                 !.promises = SettlePromise(@, message.id,
                                IF message.error THEN "rejected" ELSE "resolved")]
  ELSE [c EXCEPT !.ignored = @ \cup {message.id}]

\* ws.onmessage: the server answers a request that was made, under its id or
\* under id null
ClientMessage(message) ==
  /\ message.id <= client.requestId
  /\ client' = HandleMessage(client, message)
  /\ UNCHANGED <<worldVars, sessVars, now, callVars, sockets, request, sched, ops, db>>

\* mutant of ClientTimeout: the callback does not test pendingRequests.has(id)
ClientTimeoutUnguarded(id) ==
  /\ id \in client.timers
  /\ client' = [client EXCEPT !.timers = @ \ {id},
                              !.pendingRequests = @ \ {id},
                              !.promises = SettlePromise(@, id, "timeout")]
  /\ UNCHANGED <<worldVars, sessVars, now, callVars, sockets, request, sched, ops, db>>

\* the setTimeout callback of request(), 30 s after the send: if the id is
\* still in pendingRequests, take it out and reject with 'Request timeout'
ClientTimeout(id) ==
  /\ id \in client.timers
  /\ client' =
       IF id \in client.pendingRequests
       THEN [client EXCEPT !.timers = @ \ {id},
                           !.pendingRequests = @ \ {id},
                           !.promises = SettlePromise(@, id, "timeout")]
       ELSE [client EXCEPT !.timers = @ \ {id}]
  /\ UNCHANGED <<worldVars, sessVars, now, callVars, sockets, request, sched, ops, db>>

NextClient ==
  \/ ClientOpen
  \/ ClientClose
  \/ \E sendThrows \in BOOLEAN : ClientRequest(sendThrows)
  \/ \E id \in {Null} \cup RequestIds, error \in BOOLEAN :
       ClientMessage([id |-> id, error |-> error])
  \/ \E id \in RequestIds : ClientTimeout(id)

\* a timer that was set fires
SpecClient ==
  /\ InitRpc
  /\ [][NextClient]_vars
  /\ \A id \in RequestIds : WF_vars(ClientTimeout(id))


\* ------------------------------------------------------------- migrations
\* getExecutedMigrations: SELECT name FROM migrations
ExecutedMigrations(d) == {r.name : r \in d.migrations}

RECURSIVE SortedFiles(_)
\* getMigrationFiles: the .js files of the directory, .sort()ed
SortedFiles(S) ==
  IF S = {} THEN <<>>
  ELSE LET first == CHOOSE m \in S : \A n \in S : m <= n
       IN  <<first>> \o SortedFiles(S \ {first})

\* runMigrations: migrationFiles.filter(file => !executedMigrations.includes(file))
PendingMigrations(d) == SortedFiles(d.files \ ExecutedMigrations(d))

\* mutant of LastMigration: ORDER BY id ASC
FirstMigration(d) ==
  CHOOSE r \in d.migrations : \A q \in d.migrations : r.id <= q.id

\* rollbackMigration: SELECT name FROM migrations ORDER BY id DESC LIMIT 1
LastMigration(d) ==
  CHOOSE r \in d.migrations : \A q \in d.migrations : q.id <= r.id

\* a migration file is written to the migrations directory
AddMigrationFile(m) ==
  /\ m \notin db.files
  /\ db' = [db EXCEPT !.files = @ \cup {m}]
  /\ UNCHANGED <<worldVars, sessVars, now, callVars, sockets, request, sched, client, ops>>

\* runMigrations up to its loop: the pending files, or the return when none
RunMigrations ==
  /\ db.pc = "idle"
  /\ db' = IF PendingMigrations(db) = <<>> THEN db
           ELSE [db EXCEPT !.pc = "up", !.pending = PendingMigrations(db)]
  /\ UNCHANGED <<worldVars, sessVars, now, callVars, sockets, request, sched, client, ops>>

\* runMigrations, one turn of its loop: BEGIN, migration.up(client), INSERT
\* INTO migrations, COMMIT; when up or the INSERT (name is UNIQUE) throws,
\* ROLLBACK and the run ends with the error.  nextval is not rolled back.
MigrationUp(upThrows) ==
  /\ db.pc = "up"
  /\ db.time < MaxTransactions
  /\ LET file == Head(db.pending)
         rest == Tail(db.pending)
     IN  db' = IF upThrows
               THEN [db EXCEPT !.time = @ + 1, !.pc = "idle", !.pending = <<>>]
               ELSE IF file \in ExecutedMigrations(db)
               THEN [db EXCEPT !.time = @ + 1, !.id_seq = @ + 1,
                               !.pc = "idle", !.pending = <<>>]
               ELSE [db EXCEPT !.time = @ + 1, !.id_seq = @ + 1,
                               !.migrations = @ \cup {[id |-> db.id_seq, name |-> file,
                                                       executed_at |-> db.time + 1]},
                               !.applied[file] = @ + 1,
                               !.pending = rest,
                               !.pc = IF rest = <<>> THEN "idle" ELSE "up"]
  /\ UNCHANGED <<worldVars, sessVars, now, callVars, sockets, request, sched, client, ops>>

\* rollbackMigration: the last row, or the return when there is none; then
\* BEGIN, migration.down(client), DELETE FROM migrations WHERE name = $1,
\* COMMIT; ROLLBACK when down throws
RollbackMigration(downThrows) ==
  /\ db.pc = "idle"
  /\ db.migrations # {} => db.time < MaxTransactions
  /\ db' = IF db.migrations = {} THEN db
           ELSE LET migrationName == LastMigration(db).name
                IN  IF downThrows THEN [db EXCEPT !.time = @ + 1]
                    ELSE [db EXCEPT !.time = @ + 1,
                                    !.migrations = {r \in @ : r.name # migrationName},
                                    !.applied[migrationName] = @ - 1]
  /\ UNCHANGED <<worldVars, sessVars, now, callVars, sockets, request, sched, client, ops>>

NextMigrate ==
  \/ \E m \in MigrationNames : AddMigrationFile(m)
  \/ RunMigrations
  \/ \E upThrows \in BOOLEAN : MigrationUp(upThrows)
  \/ \E downThrows \in BOOLEAN : RollbackMigration(downThrows)

SpecMigrate == InitSession /\ [][NextMigrate]_vars

\* ============================================================== claims

SessionsOf(c) == {s \in sessions : s.characterId = c}

\* C2: every session in the map for a character c has playerId = c.owner_id,
\* in every interleaving of concurrent claim and release calls.
C2_SessionPlayerIsOwner ==
  \A s \in sessions :
    characters[s.characterId].exists => characters[s.characterId].owner = s.playerId

\* C4: the session map holds at most one live session per character after any
\* sequence of claim, validate, release and sweep operations.
C4_AtMostOneSessionPerCharacter ==
  \A c \in CharIds : Cardinality(SessionsOf(c)) <= 1

\* C5: a claim on a character owned by another player fails with AlreadyOwned
\* and changes neither the character nor the session map; release leaves the
\* character unowned, a claim on an unowned character passes the check, and
\* when a claim returns its token the claimant can control the character and
\* no other player can.
C5_ClaimExclusive ==
  [][\A k \in CallIds :
       LET p == calls'[k].player
           c == calls'[k].char
       IN
       /\ (calls[k].pc = "idle" /\ calls'[k].op = "claim" /\ characters[c].exists) =>
            IF characters[c].owner \notin {Null, p}
            THEN /\ calls'[k].pc = "done"
                 /\ calls'[k].result = "AlreadyOwned"
                 /\ characters' = characters
                 /\ sessions' = sessions
            ELSE calls'[k].pc = "update"
       /\ (calls[k].op = "release" /\ calls[k].pc = "end" /\ calls'[k].pc = "done") =>
            characters'[c].owner = Null
       /\ (calls[k].op = "claim" /\ calls[k].pc = "session" /\ calls'[k].pc = "done") =>
            /\ calls'[k].result = "ok"
            /\ \E s \in sessions' :
                 s.token = calls'[k].token /\ s.playerId = p /\ s.characterId = c
            /\ CanControlIn(characters', p, c)
            /\ \A q \in Players \ {p} : ~CanControlIn(characters', q, c)
  ]_vars

\* C5 witness: the same claim(p2, c) has failed with AlreadyOwned and, after
\* the release in between, succeeded (both results still held by the caller).
C5_Witness ==
  \E j, k \in CallIds :
    /\ calls[j].op = "claim" /\ calls[j].pc = "done" /\ calls[j].result = "AlreadyOwned"
    /\ calls[k].op = "claim" /\ calls[k].pc = "done" /\ calls[k].result = "ok"
    /\ calls[j].player = calls[k].player /\ calls[j].char = calls[k].char
    /\ CanControl(calls[k].player, calls[k].char)

\* C6: when release(c) has completed and no claim on c started after it,
\* c.owner_id is null and no session references c.
C6_ReleaseClears ==
  \A c \in released :
    characters[c].owner = Null /\ SessionsOf(c) = {}

InArea(item) == item.area # Null /\ item.holder = Null /\ item.loc = "null"
Held(item) == item.holder # Null /\ item.loc # "null" /\ item.area = Null

\* C1: every item is either in an area (area set, holder and held location
\* null) or held (holder and held location set, area null), never both and
\* never neither.
C1_ItemInAreaXorHeld ==
  \A i \in ItemIds : items[i].exists => (InArea(items[i]) /\ ~Held(items[i])) \/ (Held(items[i]) /\ ~InArea(items[i]))

InRange(v) == v # NullPct /\ 0 <= v /\ v <= 100

\* C9: in every reachable state each character's nutrition, hydration,
\* tiredness and alertness lie in [0, 100].
C9_PercentagesInRange ==
  \A c \in CharIds : characters[c].exists =>
    /\ InRange(characters[c].nutrition) /\ InRange(characters[c].hydration)
    /\ InRange(characters[c].tiredness) /\ InRange(characters[c].alertness)

\* C10: in every reachable state a character with tiredness = 100 has
\* alertness = 0.
C10_ExhaustedIsAsleep ==
  \A c \in CharIds :
    (characters[c].exists /\ characters[c].tiredness = 100) => characters[c].alertness = 0

\* C8: after every memory append the character's memory holds at most 3
\* entries for a minor character and at most 5 for a story character,
\* whatever its length was before the append.
C8_MemoryCapAfterAppend ==
  [][\A c \in CharIds :
       (characters[c].exists /\ characters'[c].exists
          /\ characters'[c].memory # characters[c].memory)
         => Len(characters'[c].memory) <= MaxRecent(characters'[c])]_vars

\* C7: the scheduler never applies a physiology tick to, or executes an
\* action for, a character whose owner_id is non-null at that moment.
C7_SchedulerSkipsOwned ==
  [][\A k \in CycleIds :
       (sched.cycles[k].pc \in {"tick", "act"} /\ sched'.cycles[k] # sched.cycles[k])
         => characters[Head(sched.cycles[k].queue)].owner = Null]_vars

\* the message carries the token of a live session whose player owns the
\* character the call is about
Authorised(r) ==
  \E s \in sessions :
    s.token = r.token /\ ~Expired(s, now) /\ CanControl(s.playerId, r.character_id)

Hands == {"right hand", "left hand"}

\* C11: in every reachable state no character holds two items in the same
\* hand (an item_pickup into an occupied hand fails and changes nothing).
C11_OneItemPerHand ==
  \A i, j \in ItemIds :
    (/\ i # j /\ items[i].exists /\ items[j].exists
     /\ items[i].holder # Null /\ items[i].holder = items[j].holder
     /\ items[i].loc \in Hands)
      => items[i].loc # items[j].loc

\* C12: item_pickup transfers an item only if the character has a non-null
\* current area and the item's current_area_id equals it; an item held by
\* another character, or in no area, is left unchanged by item_pickup.
C12_PickupOnlyFromOwnArea ==
  [][\A c \in CharIds, i \in ItemIds, l \in LocationArgs :
       (ItemPickup(c, i, l) /\ items'[i] # items[i])
         => (characters[c].area # Null /\ items[i].area = characters[c].area)]_vars

LiesWith(c, i) ==
  /\ characters[c].exists /\ characters[c].area # Null
  /\ items[i].exists /\ items[i].area = characters[c].area

C15_AreaOfOwnWorld ==
  \A c \in CharIds :
    (characters[c].exists /\ characters[c].area # Null)
      => /\ areas[characters[c].area].exists
         /\ areas[characters[c].area].world = characters[c].world

\* C16: whenever item_pickup, item_drop, character_move or character_speak
\* ends in an error (also one raised while the area's trigger reactions are
\* executing), no item, character or area field differs from its value
\* before the call.
C16_ErrorIsNoOp ==
  [][/\ \A c \in CharIds, a \in AreaIds :
          (/\ CharacterMove(c, a)
           /\ \/ CharacterMoveError(World, c, a) # "ok"
              \/ CharacterMoveDo(World, c, a).error)
            => UNCHANGED worldVars
     /\ \A c \in CharIds, text \in Texts, type \in ActionTypes :
          (/\ CharacterSpeak(c, text, type)
           /\ \/ ~characters[c].exists
              \/ CharacterSpeakDo(World, c, text, type).error)
            => UNCHANGED worldVars
     /\ \A c \in CharIds, i \in ItemIds, l \in LocationArgs :
          (/\ ItemPickup(c, i, l)
           /\ \/ ItemPickupError(World, c, i) # "ok"
              \/ ItemPickupDo(World, c, i, l).error)
            => UNCHANGED worldVars
     /\ \A c \in CharIds, i \in ItemIds :
          (/\ ItemDrop(c, i)
           /\ \/ ItemDropError(World, c, i) # "ok"
              \/ ItemDropDo(World, c, i).error)
            => UNCHANGED worldVars]_vars

\* the list without the triggers that are one_time and match the event
RECURSIVE WithoutMatchedOneTime(_, _, _)
WithoutMatchedOneTime(triggers, eventType, eventData) ==
  IF triggers = <<>> THEN <<>>
  ELSE IF Head(triggers).one_time /\ ShouldTriggerFire(Head(triggers), eventType, eventData)
       THEN WithoutMatchedOneTime(Tail(triggers), eventType, eventData)
       ELSE <<Head(triggers)>> \o WithoutMatchedOneTime(Tail(triggers), eventType, eventData)

\* C17: after executeTriggers has processed an event on an area (here the
\* character_enters of a character_move that returns normally), the area's
\* trigger list is the previous list without every matched one_time trigger,
\* the others kept in their order.
C17_OneTimeTriggersRemoved ==
  [][\A c \in CharIds, a \in AreaIds :
       (/\ CharacterMove(c, a)
        /\ CharacterMoveError(World, c, a) = "ok"
        /\ ~CharacterMoveDo(World, c, a).error)
         => areas'[a].triggers =
              WithoutMatchedOneTime(areas[a].triggers, "character_enters",
                                    EventData(c, Null, <<>>))]_vars

\* s is an initial part of t
IsPrefix(s, t) == Len(s) <= Len(t) /\ s = SubSeq(t, 1, Len(s))

Events ==
  {EventData(c, i, text) : c \in CharIds, i \in ItemIds \cup {Null},
                          text \in Texts \cup {<<>>}}

\* C19: a trigger with an object condition fires on an event if and only if
\* condition.type equals the event type, and, if keywords are present and
\* the event is character_speech, some keyword occurs in the spoken text,
\* and character_id, if present, equals the event's character_id, and
\* item_id, if present, equals the event's item_id.
C19_ObjectConditionMatch ==
  \A a \in AreaIds : \A n \in 1..Len(areas[a].triggers) :
    \A eventType \in EventTypes, eventData \in Events :
      LET trigger == areas[a].triggers[n]
          condition == trigger.condition
      IN  ~condition.isString =>
            (ShouldTriggerFire(trigger, eventType, eventData)
               <=> /\ condition.type = eventType
                   /\ (condition.keywords # <<>> /\ eventType = "character_speech")
                        => \E k \in 1..Len(condition.keywords) :
                              InText(eventData.text, condition.keywords[k])
                   /\ condition.character_id # Null
                        => condition.character_id = eventData.character_id
                   /\ condition.item_id # Null
                        => condition.item_id = eventData.item_id)

\* reaction r of a trigger of area a shows in the area's row after the step
Applied(a, r) ==
  CASE r.type = "add_exit" -> areas'[a].exits[r.direction] = r.target_area_id
    [] r.type = "modify_description" ->
         IF r.new_description # "" THEN areas'[a].description = <<r.new_description>>
         ELSE areas'[a].description = Append(areas[a].description, r.append_description)
    [] r.type = "modify_temperature" ->
         IF r.has_temperature THEN areas'[a].temperature = r.temperature
         ELSE areas'[a].temperature = areas[a].temperature + r.temperature_delta
    [] OTHER -> TRUE

\* C20: a successful character_move(c, a) sets c.current_area_id = a and
\* fires character_enters on the destination a, not on the area left: when
\* the call returns, the reactions of every trigger of a that matches
\* character_enters have been applied, and the other areas are untouched.
C20_MoveFiresOnDestination ==
  [][\A c \in CharIds, a \in AreaIds :
       (/\ CharacterMove(c, a)
        /\ CharacterMoveError(World, c, a) = "ok"
        /\ ~CharacterMoveDo(World, c, a).error)
         => /\ characters'[c].area = a
            /\ \A n \in 1..Len(areas[a].triggers) :
                 LET trigger == areas[a].triggers[n]
                 IN  ShouldTriggerFire(trigger, "character_enters", EventData(c, Null, <<>>))
                       => \A k \in 1..Len(trigger.reactions) : Applied(a, trigger.reactions[k])
            /\ \A b \in AreaIds \ {a} : areas'[b] = areas[b]]_vars

\* C20 witness: character 1 has moved from area 1 into area 2, whose
\* character_enters triggers have opened the exit, noted the visit and
\* warmed the area, while area 1 still has its first description.
C20_Witness ==
  /\ characters[1].exists /\ characters[1].area = 2
  /\ areas[2].exists /\ areas[2].exits["north"] = 1
  /\ areas[2].description = <<"base", "visited">>
  /\ areas[2].temperature = 520
  /\ areas[1].exists /\ areas[1].description = <<"base">>

\* C21: a remove_item reaction deletes an item only if the item belongs to
\* the world of the firing area; an item of another world is left unchanged
\* by the reactions of a character_enters event.
C21_RemoveItemOwnWorldOnly ==
  [][\A c \in CharIds, a \in AreaIds :
       CharacterMove(c, a) =>
         \A i \in ItemIds :
           (items[i].exists /\ areas[a].exists /\ items[i].world # areas[a].world)
             => items'[i] = items[i]]_vars

\* v clamped into [0, 100]
Clamp(v) == IF v < 0 THEN 0 ELSE IF v > 100 THEN 100 ELSE v

\* the numbers among the values a caller can pass
NumericInputs == PctInputs \ {Undefined, NullPct}

\* C22: character_update_state called with a percentage outside [0, 100]
\* succeeds and stores the value clamped into the range.
C22_UpdateStateClamps ==
  \A c \in CharIds, f \in PctFields, v \in NumericInputs :
    characters[c].exists =>
      LET args == [NoUpdates4 EXCEPT ![f] = v]
      IN  /\ CharacterUpdateError(World, c, args) = "ok"
          /\ CharacterUpdateStateDo(World, c, args).characters[c][f] = Clamp(v)

C24_NoSessionOfDeletedCharacter ==
  \A s \in sessions : characters[s.characterId].exists

\* C25: at most one scheduler cycle is in progress at any time, over every
\* sequence of start, stop, restart and timer events.
C25_NoOverlappingCycles == Cardinality(Running(sched)) <= 1

\* C26: after stop no new cycle starts, including a cycle whose timer was
\* already pending when stop was called: a runCycle begins only in a
\* controller that is running or is being started.
C26_NoCycleAfterStop ==
  [][(Running(sched') \ Running(sched) # {}) => (sched.running \/ sched'.running)]_vars

\* story characters first, then ascending id, no character twice
InQueryOrder(found) ==
  \A m, n \in 1..Len(found) :
    m < n => \/ (characters[found[m]].class = "story" /\ characters[found[n]].class # "story")
             \/ (characters[found[m]].class = characters[found[n]].class
                 /\ found[m] < found[n])

C28_OneResponsePerRequest ==
  [][request'.n # request.n =>
       /\ Len(request'.responses) = 1
       /\ request'.responses[1].id = request'.n
       /\ IF request'.method \in {"initialize", "tools/list", "tools/call"}
          THEN request'.responses[1].code = 0
          ELSE request'.responses[1].code = 0 - 32601]_vars


\* what holds of every promise of request(): resolve or reject was called at
\* most once, the entry is in pendingRequests exactly while neither was, while
\* neither was the 30 s timer is still to fire, and a request that was sent
\* settles by its response or by the timeout
SentRequestsSettleOnce ==
  \A p \in DOMAIN client.promises :
    LET r == client.promises[p]
    IN  /\ r.calls <= 1
        /\ (r.calls = 0) = (r.outcome = "pending")
        /\ (r.id \in client.pendingRequests) = (r.calls = 0)
        /\ r.calls = 0 => r.id \in client.timers
        /\ r.sent => r.outcome \in {"pending", "resolved", "rejected", "timeout"}

\* C29: every promise of request() settles exactly once, and that of a request
\* that was sent on the response carrying its id or with the timeout error of
\* its 30 s timer; its entry leaves pendingRequests when it does; and a promise
\* that has settled is not changed by anything that arrives later.
C29_RequestSettlesOnce ==
  /\ []SentRequestsSettleOnce
  /\ [][\A p \in DOMAIN client.promises :
          client.promises[p].calls = 1 => client'.promises[p] = client.promises[p]]_vars
  /\ \A p \in RequestIds :
       (Len(client.promises) >= p) ~>
         (Len(client.promises) >= p /\ client.promises[p].calls = 1)

\* a request timed out, its response arrived afterwards and found no entry,
\* and another request was resolved by its response
C29_Witness ==
  \E p, q \in DOMAIN client.promises :
    /\ client.promises[p].outcome = "timeout"
    /\ client.promises[p].id \in client.ignored
    /\ client.promises[p].calls = 1
    /\ client.promises[p].sent
    /\ client.promises[q].outcome = "resolved"


\* whether the tokens of an object, whole or cut, have a member of that name
HasMember(object, key) ==
  \E n \in 1..Len(object) : object[n].kind = "member" /\ object[n].key = key

\* parseAction returns the action of the object: its action string and its text
ReturnsActionOf(object) ==
  LET action == ParseAction(object)
  IN  /\ action.parsed
      /\ action.action = JoinWords(FieldValue(object, "action"))
      /\ action.text = FieldValue(object, "text")

\* the turn is counted as failed and the world is as it was
TurnFails(c, response) ==
  ProcessResponse(World, NoStats, c, response) =
    [world |-> World, stats |-> [NoStats EXCEPT !.failedActions = 1]]

\* executing {action: "speak", text} leaves the memory of c ending with
\* "speech: " followed by the text
SpeakIsRemembered(c, text) ==
  LET result == ExecuteActionResult(World, c,
                                    [parsed |-> TRUE, action |-> "speak", text |-> text])
      memory == result.world.characters[c].memory
  IN  /\ memory # <<>>
      /\ memory[Len(memory)] = "speech: " \o JoinWords(text)

\* C30 as stated: parseAction returns the action for every object with an
\* action field whose closing brace was cut off; the turn fails and nothing
\* changes when the response has no object or the object has no action field;
\* and executing {action: "speak", text: T} leaves the character's memory
\* ending with "speech: T", for every T.
C30_ParseAndSpeak ==
  /\ \A o \in CutObjects : HasMember(o, "action") => ReturnsActionOf(o)
  /\ \A c \in CharIds :
       characters[c].exists =>
         /\ TurnFails(c, <<>>)
         /\ TurnFails(c, <<Token("prose")>>)
         /\ \A o \in CutObjects :
              ~HasMember(o, "action") => TurnFails(c, o) /\ TurnFails(c, Whole(o))
         /\ \A text \in Texts \cup {<<>>} : SpeakIsRemembered(c, text)

\* C30, amended: the same for an action field that is not empty and a text T
\* that is not empty; an object whose action field is empty is treated as one
\* without the field, and speaking an empty text fails and leaves the memory
\* as it was.
C30_ParseAndSpeakNonEmpty ==
  /\ \A o \in CutObjects :
       FieldValue(o, "action") # <<>> => ReturnsActionOf(o) /\ ReturnsActionOf(Whole(o))
  /\ \A c \in CharIds :
       characters[c].exists =>
         /\ TurnFails(c, <<>>)
         /\ TurnFails(c, <<Token("prose")>>)
         /\ \A o \in CutObjects :
              FieldValue(o, "action") = <<>> => TurnFails(c, o) /\ TurnFails(c, Whole(o))
         /\ \A text \in Texts : SpeakIsRemembered(c, text)
         /\ ProcessResponse(World, NoStats, c,
                            <<Token("{"), Member("action", <<"speak">>), Token(","),
                              Member("text", <<>>)>>) =
              [world |-> World,
               stats |-> [NoStats EXCEPT !.failedActions = 1, !.totalActions = 1]]

\* character 1 has said "open sesame", which opened the secret exit, and the
\* response that made it say so parses without its closing brace
C30_Witness ==
  /\ characters[1].memory # <<>>
  /\ characters[1].memory[Len(characters[1].memory)] = "speech: open sesame"
  /\ areas[1].exits["secret"] = 2
  /\ ParseAction(<<Token("{"), Member("action", <<"speak">>), Token(","),
                   Member("text", <<"open", "sesame">>)>>).parsed


\* the last n elements of a sequence
LastN(s, n) == IF Len(s) <= n THEN s ELSE SubSeq(s, Len(s) - n + 1, Len(s))

\* the entries appended to the memory of c, in the order of their appends
AppendedTo(c) ==
  LET mine == SelectSeq(ops.appended, LAMBDA a : a.character_id = c)
  IN  [n \in 1..Len(mine) |-> mine[n].entry]

\* C31: once every append has completed, the memory of a character is the
\* most recent cap entries of what it had followed by all appended entries,
\* in append order: no append is lost, in any interleaving.
C31_NoAppendLost ==
  OpsRunning = {} =>
    \A c \in CharIds :
      characters[c].exists =>
        characters[c].memory =
          LastN(SeedMemory(c) \o AppendedTo(c), MaxRecent(characters[c]))


\* C32: of the item_pickup calls for one item, made by characters of its
\* area, at most one reports success; that caller holds the item and has the
\* "picked up" memory, and no one else has one.
C32_OnePickupSucceeds ==
  \A i \in ItemIds :
    LET callers == {p.character_id : p \in {q \in ops.picked : q.item_id = i}}
    IN  /\ Cardinality(callers) <= 1
        /\ OpsRunning = {} =>
             \A c \in CharIds :
               characters[c].exists =>
                 /\ IF c \in callers
                    THEN items[i].holder = c
                    ELSE items[i].holder # c
                 /\ (\E p \in ops.picked : p.character_id = c)
                      = (\E n \in 1..Len(characters[c].memory) :
                           characters[c].memory[n] = "picked up")


\* C33: the reactions of a one-time trigger are executed at most once, also
\* when two events that match it are processed at the same time.
C33_OneTimeFiresOnce ==
  \A i, j \in 1..Len(ops.reacted) :
    (i # j /\ ops.reacted[i].one_time) => ops.reacted[i] # ops.reacted[j]


\* the reactions applied one after another, each to the result of the one
\* before
RECURSIVE ReactionsInTurn(_, _, _)
ReactionsInTurn(w, areaId, reactions) ==
  IF reactions = <<>> \/ w.error THEN w
  ELSE ReactionsInTurn(ExecuteReactions(w, areaId, <<Head(reactions)>>), areaId,
                       Tail(reactions))

AreaReactions ==
  {[Reaction("add_exit") EXCEPT !.direction = "north", !.target_area_id = 2],
   [Reaction("add_exit") EXCEPT !.direction = "secret", !.target_area_id = 1],
   [Reaction("remove_exit") EXCEPT !.direction = "north"],
   [Reaction("modify_description") EXCEPT !.append_description = "first"],
   [Reaction("modify_description") EXCEPT !.append_description = "second"],
   [Reaction("modify_temperature") EXCEPT !.has_temperature_delta = TRUE,
                                          !.temperature_delta = 5]}

\* C34: firing a trigger with several reactions that modify the area leaves
\* the area as applying the reactions one after another in declared order
\* does.
C34_ReactionsCompose ==
  \A a \in AreaIds, r1, r2 \in AreaReactions :
    areas[a].exists =>
      LET w == ExecuteReactions(World, a, <<r1, r2>>)
      IN  ~w.error => w.areas[a] = ReactionsInTurn(World, a, <<r1, r2>>).areas[a]


\* an unowned character of the controller's world that is asleep
AsleepUnowned(c) ==
  /\ characters[c].exists
  /\ characters[c].world = WORLD_ID
  /\ characters[c].owner = Null
  /\ characters[c].alertness # NullPct
  /\ characters[c].alertness < 20

\* C35: every scheduler cycle takes up every unowned sleeping character for
\* its physiology tick (which lowers tiredness and raises alertness by
\* 5 dt / 60), so that the character wakes again.
C35_SleepersAreTicked ==
  [][\A k \in CycleIds, dt \in TickSeconds :
       SchedQuery(k, dt) =>
         \A c \in CharIds :
           AsleepUnowned(c) =>
             \E n \in 1..Len(sched'.cycles[k].found) : sched'.cycles[k].found[n] = c]_vars


\* C36: the dt a cycle uses for its physiology ticks is the time elapsed since
\* the cycle immediately before it, also when that cycle found no eligible
\* character.
C36_DeltaSincePrecedingCycle ==
  [][\A k \in CycleIds, elapsed \in TickSeconds :
       (SchedQuery(k, elapsed) /\ sched'.cycles[k].pc = "tick")
         => sched'.cycles[k].secondsPassed = elapsed]_vars


\* the character whose action cycle k is about to execute is asleep
ActsAsleep(k) ==
  LET c == Head(sched.cycles[k].queue)
  IN  characters[c].exists /\ characters[c].alertness \in 0..19

\* C37: the scheduler executes no action chosen by the language model for a
\* character whose alertness is below 20 when the action is executed; a
\* character put to sleep by the physiology tick of a cycle does not act in
\* that cycle.
C37_SleepersDoNotAct ==
  [][\A k \in CycleIds :
       (SchedAct(k, "wait") /\ sched.initialized) => ~ActsAsleep(k)]_vars


\* the exit a move action of character c names in the character's area, if any
NamedExit(c, direction) ==
  LET from == characters[c].area
  IN  IF from = Null \/ direction = "" THEN Null
      ELSE IF ~areas[from].exists THEN Null
      ELSE CASE direction \in {"north", "North", "NORTH"} -> areas[from].exits["north"]
             [] direction = "secret" -> areas[from].exits["secret"]
             [] OTHER -> Null

\* C38: a move action changes the character's area only to the area that the
\* exits of its current area give for the lower-cased direction; without an
\* area or without such an exit the action fails and the character stays.
C38_MoveFollowsExit ==
  [][\A c \in CharIds, direction \in MoveDirections :
       AgentMove(1, c, direction) =>
         /\ characters'[c].area # characters[c].area
              => characters'[c].area = NamedExit(c, direction)
         /\ NamedExit(c, direction) = Null
              => ops'.slot[1].pc = "failure" /\ characters'[c].area = characters[c].area]_vars

\* character 2 went through the north exit of area 2, and a move "North" of
\* character 1 failed in area 1, whose exits have the key "North" but no "north"
C38_Witness ==
  /\ ops.slot[1].tool = "move" /\ ops.slot[1].pc = "failure"
  /\ ops.slot[1].location = "North"
  /\ ops.slot[1].character_id = 1 /\ ops.slot[1].area = 1
  /\ characters[1].area = 1 /\ areas[1].exits["North"] = 2
  /\ characters[2].area = 1


\* C39: ownership does not outlive its session: once validateSession or the
\* hourly sweep has removed an expired session, the owner_id of its character
\* is cleared, so that the character can be scheduled or claimed again.
C39_ExpiryClearsOwner ==
  [][\A s \in sessions :
       (Expired(s, now) /\ (CleanupSessions \/ ValidateSession(s.token)))
         => characters'[s.characterId].owner = Null]_vars


\* the row of the migrations table with the latest executed_at
MostRecentlyRecorded ==
  CHOOSE r \in db.migrations : \A q \in db.migrations : q.executed_at <= r.executed_at

\* the migrations table names exactly the migrations whose up is in the
\* schema, each once
RecordedIffApplied ==
  \A m \in MigrationNames :
    /\ db.applied[m] \in {0, 1}
    /\ Cardinality({r \in db.migrations : r.name = m}) = db.applied[m]

\* a down that changed anything removed the most recently recorded row and
\* the up of that migration, and nothing else
DownUndoesLast ==
  \A downThrows \in BOOLEAN :
    (RollbackMigration(downThrows) /\ db' # [db EXCEPT !.time = @ + 1] /\ db' # db)
      => /\ db'.migrations = db.migrations \ {MostRecentlyRecorded}
         /\ db'.applied = [db.applied EXCEPT ![MostRecentlyRecorded.name] = 0]

\* C40: after any sequence of runs, up or down, failed or not, a migration is
\* recorded if and only if its up committed and was not rolled back, none is
\* applied twice, and down undoes exactly the most recently recorded one.
C40_RecordedIffApplied ==
  /\ []RecordedIffApplied
  /\ [][DownUndoesLast]_vars

\* two rows have been inserted and four transactions begun, a down among
\* them: migration 2 is recorded and applied, migration 1, whose file is
\* there, is neither
C40_Witness ==
  /\ db.id_seq = 3 /\ db.time = 4 /\ db.pc = "idle"
  /\ ExecutedMigrations(db) = {2}
  /\ db.applied[1] = 0 /\ db.applied[2] = 1
  /\ 1 \in db.files

====
